---- MODULE Spec2Model ----
(***************************************************************************)
(* Model of the photo frame slideshow driver (lib/photoframe.py), of the   *)
(* tray callbacks that drive it (main.py) and of the parts of the display  *)
(* controller (lib/display.py) and configuration manager                  *)
(* (lib/config_manager.py) they call.                                      *)
(*                                                                         *)
(* Threads.  The loop threads started by start_slideshow run               *)
(* _slideshow_loop; the operations of PhotoFrame are called from other     *)
(* threads (the main thread, the tray callbacks), one operation at a time, *)
(* concurrently with the loop threads.  A step of a thread is one          *)
(* statement (or a run of statements that touch no shared state in         *)
(* between); the calls that block (transmission to the panel, time.sleep)  *)
(* are states of their own.  The settings editor and the file system are   *)
(* the environment.                                                        *)
(*                                                                         *)
(* Configurations always carry photos.orientation and the two folder keys  *)
(* (the editor writes them, get_default_config has them), so the legacy    *)
(* fallback keys of load_images are never consulted.                       *)
(***************************************************************************)
EXTENDS Integers, Sequences, FiniteSets, TLC

\* ------------------------------------------------------------- bounds
MaxFiles == 3      \* directory entries per folder
MaxLoops == 2      \* loop threads that can exist at the same time
MaxTicks == 2      \* ticks counted after a start

\* ---------------------------------------------------------- constants
DEFAULT_LCD_WIDTH == 320
DEFAULT_LCD_HEIGHT == 480
MIN_FONT_SIZE == 16
FONT_SIZE_BONUS == 11

Folders == {"A", "B"}
\* the folders whose content changes while the program runs
ChangingFolders == {"B"}
\* the folders the settings editor chooses from
EditorPortraitFolders == {"A"}
EditorLandscapeFolders == {"B"}
\* the outcomes of reading tools/config.yaml: TRUE (read), FALSE (unreadable)
Readable == {TRUE}
Loops == 1..MaxLoops
Callers == {"user"}

\* ------------------------------------------------------------ strings
\* str.lower() on the strings of the model
Lower(s) ==
    CASE s = "Portrait" -> "portrait"
      [] s = "Landscape" -> "landscape"
      [] s = ".PNG" -> ".png"
      [] s = ".JPG" -> ".jpg"
      [] OTHER -> s

\* str.capitalize() on the strings of the model
Capitalize(s) ==
    CASE s = "portrait" -> "Portrait"
      [] s = "landscape" -> "Landscape"
      [] s = "LANDSCAPE" -> "Landscape"
      [] s = "sideways" -> "Sideways"
      [] OTHER -> s

\* str.startswith('p') on lower-cased orientations
StartsWithP(s) == s \in {"portrait"}

\* ------------------------------------------------------- file system
NoFile == [dir |-> "", n |-> 0, suffix |-> ""]

\* the suffix of the i-th directory entry of a folder
SuffixOf(i) ==
    CASE i = 1 -> ".txt"
      [] i = 2 -> ".jpg"
      [] i = 3 -> ".PNG"
      [] i = 4 -> ".webp"
      [] i = 5 -> ".tiff"
      [] i = 6 -> ".bmp"
      [] OTHER -> ".gif"

Entry(f, i) == [dir |-> f, n |-> i, suffix |-> SuffixOf(i)]

\* Path(folder).iterdir() of a folder holding k entries
Listing(f, k) == {Entry(f, i) : i \in 1..k}

\* all orderings of a finite set, as sequences (random.shuffle)
RECURSIVE Perms(_)
Perms(S) ==
    IF S = {} THEN {<<>>}
    ELSE UNION {{<<x>> \o p : p \in Perms(S \ {x})} : x \in S}

\* Python list indexing: seq[i] is legal for -len <= i < len
PyInRange(seq, i) == i >= 0 - Len(seq) /\ i < Len(seq)
PyIndex(seq, i) == IF i >= 0 THEN seq[i + 1] ELSE seq[Len(seq) + i + 1]

\* ---------------------------------------------------- configuration
get_default_config ==
    [orientation |-> "Portrait", portrait_folder |-> "",
     landscape_folder |-> "", inverse |-> FALSE]

\* ConfigManager.load_config(force_reload=True): the file, or the defaults
\* when the file cannot be read or parsed
load_config(d, readable) == IF readable THEN d ELSE get_default_config

\* an apply_config that sets the orientation and leaves the dimensions
apply_config_keeps_size(cfg) ==
    LET o == Capitalize(cfg.orientation)
        fo == IF o \in {"Portrait", "Landscape"} THEN o ELSE "Portrait"
    IN [frame_orientation |-> fo, inverse |-> cfg.inverse,
        width |-> DEFAULT_LCD_WIDTH, height |-> DEFAULT_LCD_HEIGHT]

\* LCDDisplay.apply_config: the display fields for a configuration
apply_config(cfg) ==
    LET o == Capitalize(cfg.orientation)
        fo == IF o \in {"Portrait", "Landscape"} THEN o ELSE "Portrait"
    IN [frame_orientation |-> fo,
        inverse |-> cfg.inverse,
        width |-> IF fo = "Portrait" THEN DEFAULT_LCD_WIDTH ELSE DEFAULT_LCD_HEIGHT,
        height |-> IF fo = "Portrait" THEN DEFAULT_LCD_HEIGHT ELSE DEFAULT_LCD_WIDTH]

VARIABLES
    disk,             \* tools/config.yaml
    fs,               \* number of directory entries of each folder (0: missing or empty)
    config,           \* PhotoFrame.config
    display,          \* PhotoFrame.display is not None
    lcd,              \* LCDDisplay: frame_orientation, inverse, width, height
    running,          \* PhotoFrame.running
    current_images,   \* PhotoFrame.current_images
    current_index,    \* PhotoFrame.current_index
    slideshow_thread, \* PhotoFrame.slideshow_thread (0: None)
    reload_lock,      \* PhotoFrame._reload_lock
    loop,             \* the loop threads: position, image being sent, failure in this tick
    call,             \* the callers: operation, position, image being sent, return value
    obs,              \* what has been observed since the last start
    img               \* the call of the display or of a loader that is followed

vars == <<disk, fs, config, display, lcd, running, current_images, current_index,
          slideshow_thread, reload_lock, loop, call, obs, img>>

\* the folder load_images reads for a configuration
image_folder(cfg) ==
    IF StartsWithP(Lower(cfg.orientation)) THEN cfg.portrait_folder
    ELSE cfg.landscape_folder

image_extensions == {".jpg", ".jpeg", ".png", ".bmp", ".gif"}

\* PhotoFrame.load_images: the playlists it can return for a configuration
load_images(cfg) ==
    LET folder == image_folder(cfg)
    IN IF folder = "" THEN {<<>>}
       ELSE IF fs[folder] = 0 THEN {<<>>}
       ELSE Perms({e \in Listing(folder, fs[folder]) :
                      Lower(e.suffix) \in image_extensions})

\* ------------------------------------------------------------ indices
\* an advance that forgets the modulus
NextIndexNoWrap(i, len) == i + 1

\* the index arithmetic of _slideshow_loop and next_image
NextIndex(i, len) == (i + 1) % len

\* a step back that forgets the modulus
PrevIndexNoWrap(i, len) == i - 1

\* the index arithmetic of previous_image
PrevIndex(i, len) == (i - 1) % len

\* ------------------------------------------------------- observation
\* a manual operation (next, previous, switch, reload) has intervened
Manual(o) == [o EXCEPT !.ticks = 0 - 1, !.first = "none"]

\* the loop has replaced the playlist on its own
Reloaded(o) == [o EXCEPT !.reloaded = TRUE, !.first = "none"]

\* a loop thread has advanced the index
Ticked(o) ==
    [o EXCEPT !.ticks = IF @ < 0 \/ @ >= MaxTicks THEN 0 - 1 ELSE @ + 1]

\* an image has reached the panel while the playlist is images
Rendered(o, path, images) ==
    IF o.first = "pending"
    THEN [o EXCEPT !.first = IF images # <<>> /\ path = images[1]
                             THEN "head" ELSE "other"]
    ELSE o

Alive(t) == loop[t].pc \in {"while", "cfg", "show", "xmit"}

\* -------------------------------------------------------------- Init
\* no image is followed
NoImage == [pc |-> "none"]

\* the directory entries of the folders when the program starts: folder B
\* holds one image less than folder A
InitialEntries(f) == IF f = "A" THEN MaxFiles ELSE MaxFiles - 1

Init ==
    /\ disk = [orientation |-> "portrait", portrait_folder |-> "A",
               landscape_folder |-> "B", inverse |-> FALSE]
    /\ fs = [f \in Folders |-> InitialEntries(f)]
    /\ config = disk
    /\ display = FALSE
    /\ lcd = apply_config(disk)
    /\ running = FALSE
    /\ current_images = <<>>
    /\ current_index = 0
    /\ slideshow_thread = 0
    /\ reload_lock = FALSE
    /\ loop = [t \in Loops |-> [pc |-> "none", path |-> NoFile, failed |-> "none"]]
    /\ call = [c \in Callers |->
                 [op |-> "none", pc |-> "idle", path |-> NoFile, ret |-> "none"]]
    /\ obs = [ticks |-> 0 - 1, reloaded |-> FALSE, first |-> "none"]
    /\ img = NoImage

\* ------------------------------------------------------- environment
\* the settings editor saves another orientation or folder
EditorSave ==
    /\ \E o \in {"portrait", "landscape"}, pf \in EditorPortraitFolders, lf \in EditorLandscapeFolders :
          /\ disk' = [disk EXCEPT !.orientation = o, !.portrait_folder = pf,
                                  !.landscape_folder = lf]
          /\ disk' # disk
    /\ UNCHANGED <<fs, config, display, lcd, running, current_images, current_index,
                   slideshow_thread, reload_lock, loop, call, obs>>
    /\ UNCHANGED img

\* a folder is emptied (or removed), or its files are put back
FolderChange ==
    /\ \E f \in ChangingFolders :
          fs' = [fs EXCEPT ![f] = IF @ = 0 THEN InitialEntries(f) ELSE 0]
    /\ UNCHANGED <<disk, config, display, lcd, running, current_images, current_index,
                   slideshow_thread, reload_lock, loop, call, obs>>
    /\ UNCHANGED img

\* -------------------------------------------------- _slideshow_loop
\* Positions of a loop thread: "while" (in time.sleep, or just started: the
\* loop condition is tested next), "cfg" (before the configuration check),
\* "show" (before show_current_image_now), "xmit" (inside
\* display_image_with_overlay), "none" (no thread, or the thread has
\* returned), "crashed" (ended by an exception).  failed is the latest
\* failure of the current tick.

\* while self.running: / if not self.current_images: break / if self._reload_lock
LoopHead(t) ==
    /\ loop[t].pc = "while"
    /\ IF ~running \/ current_images = <<>>
       THEN loop' = [loop EXCEPT ![t].pc = "none", ![t].failed = "none"]
       ELSE IF reload_lock
       THEN loop' = loop
       ELSE loop' = [loop EXCEPT ![t].pc = "cfg", ![t].failed = "none"]
    /\ UNCHANGED <<disk, fs, config, display, lcd, running, current_images,
                   current_index, slideshow_thread, reload_lock, call, obs>>
    /\ UNCHANGED img

\* the handlers of the configuration check: an exception raised by the
\* check ("check") or by load_images ("load_images") is caught and logged
after_check(exc) == "show"

\* the configuration check of a tick; exc is the place where it raises
LoopCheckConfig(t) ==
    /\ loop[t].pc = "cfg"
    /\ \E readable \in Readable, exc \in {"none", "check", "load_images"} :
          LET fresh_cfg == load_config(disk, readable)
              config_changed ==
                  \/ config.orientation # fresh_cfg.orientation
                  \/ config.portrait_folder # fresh_cfg.portrait_folder
                  \/ config.landscape_folder # fresh_cfg.landscape_folder
          IN IF exc = "check"
             THEN /\ loop' = [loop EXCEPT ![t].pc = after_check(exc),
                                          ![t].failed = "cfg"]
                  /\ UNCHANGED <<config, lcd, current_images, current_index, obs>>
             ELSE IF ~config_changed
             THEN /\ exc = "none"
                  /\ config' = fresh_cfg
                  /\ loop' = [loop EXCEPT ![t].pc = "show"]
                  /\ UNCHANGED <<lcd, current_images, current_index, obs>>
             ELSE /\ config' = fresh_cfg
                  /\ lcd' = IF display THEN apply_config(fresh_cfg) ELSE lcd
                  /\ IF exc = "load_images"
                     THEN /\ loop' = [loop EXCEPT ![t].pc = after_check(exc),
                                                  ![t].failed = "cfg"]
                          /\ UNCHANGED <<current_images, current_index, obs>>
                     ELSE /\ loop' = [loop EXCEPT ![t].pc = "show"]
                          /\ \E new_images \in load_images(fresh_cfg) :
                                IF new_images # <<>>
                                THEN /\ current_images' = new_images
                                     /\ current_index' = 0
                                     /\ obs' = Reloaded(obs)
                                ELSE UNCHANGED <<current_images, current_index, obs>>
    /\ UNCHANGED <<disk, fs, display, running, slideshow_thread, reload_lock, call>>
    /\ UNCHANGED img

\* a show_current_image_now that does not test self.running
show_without_running_test ==
    IF current_images = <<>> \/ ~display THEN "skip"
    ELSE IF ~PyInRange(current_images, current_index) THEN "raise"
    ELSE "send"

\* show_current_image_now, up to the call of display_image_with_overlay:
\* "skip" (nothing to show), "raise" (IndexError) or "send"
show_current_image_now ==
    IF current_images = <<>> \/ ~running \/ ~display THEN "skip"
    ELSE IF ~PyInRange(current_images, current_index) THEN "raise"
    ELSE "send"

\* what a display_image_with_overlay that has ended with res does to
\* show_current_image_now: the exception is caught and logged, a False
\* result is ignored
after_display(res) == IF res = "ok" THEN "sent" ELSE "failed"

\* self.current_index = (self.current_index + 1) % len(self.current_images)
\* and the thread goes to sleep; o is what has been observed, failed the
\* latest failure of the tick
Advance(t, o, failed) ==
    IF current_images = <<>>
    THEN /\ loop' = [loop EXCEPT ![t] =
                       [pc |-> "crashed", path |-> NoFile, failed |-> failed]]
         /\ obs' = o
         /\ UNCHANGED current_index
    ELSE /\ current_index' = NextIndex(current_index, Len(current_images))
         /\ loop' = [loop EXCEPT ![t] =
                       [pc |-> "while", path |-> NoFile, failed |-> failed]]
         /\ obs' = Ticked(o)

\* show_current_image_now of the loop: the image is read and the display is
\* called, or there is nothing to show and the index is advanced at once
LoopShow(t) ==
    /\ loop[t].pc = "show"
    /\ CASE show_current_image_now = "skip" -> Advance(t, obs, loop[t].failed)
         [] show_current_image_now = "raise" ->
               /\ loop' = [loop EXCEPT ![t] =
                             [pc |-> "crashed", path |-> NoFile,
                              failed |-> loop[t].failed]]
               /\ UNCHANGED <<current_index, obs>>
         [] OTHER ->
               /\ loop' = [loop EXCEPT
                             ![t].pc = "xmit",
                             ![t].path = PyIndex(current_images, current_index)]
               /\ UNCHANGED <<current_index, obs>>
    /\ UNCHANGED <<disk, fs, config, display, lcd, running, current_images,
                   slideshow_thread, reload_lock, call>>
    /\ UNCHANGED img

\* display_image_with_overlay returns: the image is on the panel ("ok"), it
\* returned False ("false") or it raised ("raised"); the index is advanced
LoopXmitResult(t, res) ==
    /\ loop[t].pc = "xmit"
    /\ IF after_display(res) \in {"sent", "failed"}
       THEN Advance(t,
                    IF res = "ok"
                    THEN Rendered(obs, loop[t].path, current_images) ELSE obs,
                    IF res = "ok" THEN loop[t].failed ELSE "display")
       ELSE /\ loop' = [loop EXCEPT ![t] =
                          [pc |-> "crashed", path |-> NoFile, failed |-> "display"]]
            /\ UNCHANGED <<current_index, obs>>
    /\ UNCHANGED <<disk, fs, config, display, lcd, running, current_images,
                   slideshow_thread, reload_lock, call>>

LoopXmit(t) ==
    /\ \E res \in {"ok", "false", "raised"} : LoopXmitResult(t, res)
    /\ UNCHANGED img

\* ------------------------------------------------------- operations
Idle(c) == call[c].pc = "idle"

\* the operations whose return is remembered until the next call
Remembered == {"start_slideshow", "previous_image"}

\* the caller c has returned from op with the value ret
Returned(c, op, ret) ==
    [call EXCEPT ![c] =
       IF op \in Remembered
       THEN [op |-> op, pc |-> "idle", path |-> NoFile, ret |-> ret]
       ELSE [op |-> "none", pc |-> "idle", path |-> NoFile, ret |-> "none"]]

\* the caller c is inside op at position pc
At(c, op, pc) ==
    [call EXCEPT ![c] = [op |-> op, pc |-> pc, path |-> NoFile, ret |-> "none"]]

\* PhotoFrame.set_display
SetDisplay(c) ==
    /\ Idle(c)
    /\ display' = TRUE
    /\ call' = Returned(c, "set_display", "none")
    /\ UNCHANGED <<disk, fs, config, lcd, running, current_images, current_index,
                   slideshow_thread, reload_lock, loop, obs>>
    /\ UNCHANGED img

\* what start_slideshow does without a display: "refuse" (return False)
start_without_display == "refuse"

\* PhotoFrame.start_slideshow, up to the point where its reload_config
\* has applied the configuration
StartSlideshow(c) ==
    /\ Idle(c)
    /\ IF ~display /\ start_without_display = "refuse"
       THEN /\ call' = Returned(c, "start_slideshow", "False")
            /\ UNCHANGED <<config, lcd, obs>>
       ELSE \E readable \in Readable :
               /\ config' = load_config(disk, readable)
               /\ lcd' = IF display THEN apply_config(config') ELSE lcd
               /\ call' = At(c, "start_slideshow",
                             IF running THEN "rc_images" ELSE "st_load")
               /\ obs' = IF running THEN Manual(obs)
                         ELSE [obs EXCEPT !.ticks = 0 - 1]
    /\ UNCHANGED <<disk, fs, display, running, current_images, current_index,
                   slideshow_thread, reload_lock, loop>>
    /\ UNCHANGED img

\* PhotoFrame.reload_config, up to the test of self.running
ReloadConfig(c) ==
    /\ Idle(c)
    /\ \E readable \in Readable :
          /\ config' = load_config(disk, readable)
          /\ lcd' = IF display THEN apply_config(config') ELSE lcd
    /\ IF running
       THEN /\ call' = At(c, "reload_config", "rc_images")
            /\ obs' = Manual(obs)
       ELSE /\ call' = Returned(c, "reload_config", "True")
            /\ obs' = obs
    /\ UNCHANGED <<disk, fs, display, running, current_images, current_index,
                   slideshow_thread, reload_lock, loop>>
    /\ UNCHANGED img

\* the orientation switch_orientation chooses
toggle(current) == IF current = "landscape" THEN "portrait" ELSE "landscape"

\* PhotoFrame.switch_orientation, up to the test of self.running; saved is
\* the result of save_config
SwitchOrientation(c) ==
    /\ Idle(c)
    /\ \E saved \in BOOLEAN, readable \in Readable :
          /\ disk' = IF saved
                     THEN [config EXCEPT !.orientation = toggle(config.orientation)]
                     ELSE disk
          /\ config' = load_config(disk', readable)
          /\ lcd' = IF display THEN apply_config(config') ELSE lcd
    /\ IF running
       THEN /\ call' = At(c, "switch_orientation", "rc_images")
            /\ obs' = Manual(obs)
       ELSE /\ call' = Returned(c, "switch_orientation", "none")
            /\ obs' = obs
    /\ UNCHANGED <<fs, display, running, current_images, current_index,
                   slideshow_thread, reload_lock, loop>>
    /\ UNCHANGED img

\* self.current_images = self.load_images(use_current_config=True)
\* in reload_config and switch_orientation
AssignImages(c) ==
    /\ call[c].pc = "rc_images"
    /\ \E new_images \in load_images(config) : current_images' = new_images
    /\ call' = [call EXCEPT ![c].pc = "rc_index"]
    /\ UNCHANGED <<disk, fs, config, display, lcd, running, current_index,
                   slideshow_thread, reload_lock, loop, obs>>
    /\ UNCHANGED img

\* self.current_index = 0 in reload_config and switch_orientation
ResetIndex(c) ==
    /\ call[c].pc = "rc_index"
    /\ current_index' = 0
    /\ call' = [call EXCEPT ![c].pc = "rc_show"]
    /\ UNCHANGED <<disk, fs, config, display, lcd, running, current_images,
                   slideshow_thread, reload_lock, loop, obs>>
    /\ UNCHANGED img

\* where a caller goes on after show_current_image_now: start_slideshow
\* loads the playlist, the other operations return
AfterShow(c) ==
    IF call[c].op = "start_slideshow"
    THEN At(c, "start_slideshow", "st_load")
    ELSE Returned(c, call[c].op,
                  IF call[c].op = "reload_config" THEN "True" ELSE "none")

\* where a caller goes on when show_current_image_now raises: start_slideshow
\* swallows the exception of its reload_config, the other operations end
AfterRaise(c) ==
    IF call[c].op = "start_slideshow"
    THEN At(c, "start_slideshow", "st_load")
    ELSE Returned(c, call[c].op, "raised")

\* a caller's show_current_image_now, up to the call of the display
ShowNow(c) ==
    /\ call[c].pc = "rc_show"
    /\ call' = CASE show_current_image_now = "skip" -> AfterShow(c)
                 [] show_current_image_now = "raise" -> AfterRaise(c)
                 [] OTHER -> [call EXCEPT
                                ![c].pc = "rc_xmit",
                                ![c].path = PyIndex(current_images, current_index)]
    /\ UNCHANGED <<disk, fs, config, display, lcd, running, current_images,
                   current_index, slideshow_thread, reload_lock, loop, obs>>
    /\ UNCHANGED img

\* a caller's display_image_with_overlay returns
ShowNowXmitResult(c, res) ==
    /\ call[c].pc = "rc_xmit"
    /\ call' = IF after_display(res) \in {"sent", "failed"}
               THEN AfterShow(c) ELSE AfterRaise(c)
    /\ obs' = IF res = "ok" THEN Rendered(obs, call[c].path, current_images) ELSE obs
    /\ UNCHANGED <<disk, fs, config, display, lcd, running, current_images,
                   current_index, slideshow_thread, reload_lock, loop>>

ShowNowXmit(c) ==
    /\ \E res \in {"ok", "false", "raised"} : ShowNowXmitResult(c, res)
    /\ UNCHANGED img

\* the slot of the thread start_slideshow creates
NewThread == CHOOSE t \in Loops : ~Alive(t) /\ \A u \in Loops : ~Alive(u) => t <= u

\* a start_slideshow that does not test the playlist
start_with_any(images) == "run"

\* what start_slideshow does with the playlist it has loaded: "refuse"
\* (return False) when it is empty, "run" otherwise
start_with(images) == IF images = <<>> THEN "refuse" ELSE "run"

\* the index start_slideshow sets
start_index == 0

\* PhotoFrame.start_slideshow from the load of the playlist to its return
StartFinish(c) ==
    /\ call[c].pc = "st_load"
    /\ \E images \in load_images(config) :
          /\ current_images' = images
          /\ IF start_with(images) = "refuse"
             THEN /\ call' = Returned(c, "start_slideshow", "False")
                  /\ UNCHANGED <<running, current_index, slideshow_thread, loop, obs>>
             ELSE /\ \E t \in Loops : ~Alive(t)
                  /\ running' = TRUE
                  /\ current_index' = start_index
                  /\ slideshow_thread' = NewThread
                  /\ loop' = [loop EXCEPT ![NewThread] =
                                [pc |-> "while", path |-> NoFile, failed |-> "none"]]
                  /\ call' = Returned(c, "start_slideshow", "True")
                  /\ obs' = [ticks |-> 0, reloaded |-> FALSE,
                             first |-> IF obs.first = "stopped"
                                       THEN "pending" ELSE "none"]
    /\ UNCHANGED <<disk, fs, config, display, lcd, reload_lock>>
    /\ UNCHANGED img

\* PhotoFrame.stop_slideshow; the join returns after at most a second,
\* whether or not the thread has ended
StopSlideshow(c) ==
    /\ Idle(c)
    /\ running' = FALSE
    /\ call' = Returned(c, "stop_slideshow", "none")
    /\ obs' = [obs EXCEPT !.first = IF running \/ @ = "stopped"
                                     THEN "stopped" ELSE "none"]
    /\ UNCHANGED <<disk, fs, config, display, lcd, current_images, current_index,
                   slideshow_thread, reload_lock, loop>>
    /\ UNCHANGED img

\* PhotoFrame.next_image, called by PhotoFrameApp.next_photo, which goes on
\* to show_current_image_now
NextImage(c) ==
    /\ Idle(c)
    /\ IF current_images # <<>> /\ running
       THEN /\ current_index' = NextIndex(current_index, Len(current_images))
            /\ obs' = Manual(obs)
       ELSE UNCHANGED <<current_index, obs>>
    /\ call' = At(c, "next_photo", "rc_show")
    /\ UNCHANGED <<disk, fs, config, display, lcd, running, current_images,
                   slideshow_thread, reload_lock, loop>>
    /\ UNCHANGED img

\* PhotoFrame.previous_image
PreviousImage(c) ==
    /\ Idle(c)
    /\ IF current_images # <<>> /\ running
       THEN /\ current_index' = PrevIndex(current_index, Len(current_images))
            /\ obs' = Manual(obs)
       ELSE UNCHANGED <<current_index, obs>>
    /\ call' = Returned(c, "previous_image", "none")
    /\ UNCHANGED <<disk, fs, config, display, lcd, running, current_images,
                   slideshow_thread, reload_lock, loop>>
    /\ UNCHANGED img

\* a switch_to_default_folder that gets as far as its write of the file
SwitchToDefaultFolderSaves(c) ==
    /\ Idle(c)
    /\ \E default_folder \in Folders :
          disk' = IF Lower(disk.orientation) = "portrait"
                  THEN [disk EXCEPT !.portrait_folder = default_folder]
                  ELSE [disk EXCEPT !.landscape_folder = default_folder]
    /\ call' = Returned(c, "switch_to_default_folder", "none")
    /\ UNCHANGED <<fs, config, display, lcd, running, current_images,
                   current_index, slideshow_thread, reload_lock, loop, obs>>
    /\ UNCHANGED img

\* PhotoFrameApp.switch_to_default_folder: its first statement reads
\* photoframe.config_path, which PhotoFrame does not have; the AttributeError
\* is caught and printed by the handler of the method
SwitchToDefaultFolder(c) ==
    /\ Idle(c)
    /\ call' = Returned(c, "switch_to_default_folder", "raised")
    /\ UNCHANGED <<disk, fs, config, display, lcd, running, current_images,
                   current_index, slideshow_thread, reload_lock, loop, obs>>
    /\ UNCHANGED img

\* -------------------------------------------------------------- Next
Next ==
    \/ EditorSave
    \/ FolderChange
    \/ \E t \in Loops : LoopHead(t)
    \/ \E t \in Loops : LoopCheckConfig(t)
    \/ \E t \in Loops : LoopShow(t)
    \/ \E t \in Loops : LoopXmit(t)
    \/ \E c \in Callers : SetDisplay(c)
    \/ \E c \in Callers : StartSlideshow(c)
    \/ \E c \in Callers : StartFinish(c)
    \/ \E c \in Callers : StopSlideshow(c)
    \/ \E c \in Callers : ReloadConfig(c)
    \/ \E c \in Callers : SwitchOrientation(c)
    \/ \E c \in Callers : SwitchToDefaultFolder(c)
    \/ \E c \in Callers : NextImage(c)
    \/ \E c \in Callers : PreviousImage(c)
    \/ \E c \in Callers : AssignImages(c)
    \/ \E c \in Callers : ResetIndex(c)
    \/ \E c \in Callers : ShowNow(c)
    \/ \E c \in Callers : ShowNowXmit(c)

Spec == Init /\ [][Next]_vars

\* ------------------------------------------------------------ claims
ActiveLoops == {t \in Loops : Alive(t)}

C2_RestartShowsHead ==
    /\ obs.first # "other"
    /\ (obs.first = "pending" /\ obs.ticks = 0) => current_index = 0

RelevantChange(old, new) ==
    \/ old.orientation # new.orientation
    \/ old.portrait_folder # new.portrait_folder
    \/ old.landscape_folder # new.landscape_folder

C4_OneLoopThread == Cardinality(ActiveLoops) <= 1

\* C5: at most one thread is inside display_image_with_overlay.
C5_OneWriter ==
    Cardinality({t \in Loops : loop[t].pc = "xmit"})
        + Cardinality({c \in Callers : call[c].pc = "rc_xmit"}) <= 1

\* C6: reload_config and switch_orientation hold _reload_lock from the
\* replacement of the playlist to their return.
C6_ReloadLockHeld ==
    \A c \in Callers :
        (/\ call[c].op \in {"reload_config", "switch_orientation"}
         /\ call[c].pc \in {"rc_images", "rc_index", "rc_show", "rc_xmit"})
            => reload_lock

\* C7: while running with a non-empty playlist, no step of a tick ends the
\* loop thread: after a failed configuration check the thread goes on to show
\* the image, show_current_image_now leads to the display call or (nothing to
\* show) to the sleep, after a failed display the thread advances the index
\* and sleeps, and after the sleep of a failed tick it begins the next tick.
C7_FailedTickContinues ==
    [][\A t \in Loops :
          (running /\ current_images # <<>> /\ loop'[t] # loop[t]) =>
             /\ (loop[t].pc = "cfg" /\ loop'[t].failed = "cfg")
                   => loop'[t].pc = "show"
             /\ (loop[t].pc = "show")
                   => loop'[t].pc \in {"xmit", "while"}
             /\ (loop[t].pc = "xmit" /\ loop'[t].failed = "display")
                   => /\ loop'[t].pc = "while"
                      /\ current_index' = (current_index + 1) % Len(current_images)
             /\ (loop[t].pc = "while" /\ loop[t].failed # "none" /\ ~reload_lock)
                   => loop'[t].pc = "cfg"]_vars

\* C8: while running, a loop thread stays alive when the playlist is empty.
C8_IdlesWhenEmpty ==
    [][\A t \in Loops :
          (running /\ current_images = <<>> /\ Alive(t))
              => loop'[t].pc \in {"while", "cfg", "show", "xmit"}]_vars

C10_NextPrevious ==
    [][\A c \in Callers :
          LET len == Len(current_images)
              moves == running /\ current_images # <<>>
              frame == /\ UNCHANGED <<disk, fs, config, display, lcd, running,
                                      current_images, slideshow_thread,
                                      reload_lock, loop>>
                       /\ call'[c].pc # "rc_xmit"
          IN /\ NextImage(c)
                   => /\ frame
                      /\ current_index' = IF moves THEN (current_index + 1) % len
                                          ELSE current_index
                      /\ moves => PrevIndex(current_index', len) = current_index
             /\ PreviousImage(c)
                   => /\ frame
                      /\ current_index' = IF moves THEN (current_index - 1) % len
                                          ELSE current_index
                      /\ moves => NextIndex(current_index', len) = current_index]_vars

\* previous_image has wrapped from the first to the last image
C10_PreviousWrapped ==
    \E c \in Callers :
        /\ call[c].op = "previous_image"
        /\ call[c].pc = "idle"
        /\ running
        /\ Len(current_images) = 2
        /\ current_index = 1

\* a step of the loop thread t
LoopStep(t) == LoopHead(t) \/ LoopCheckConfig(t) \/ LoopShow(t) \/ LoopXmit(t)

\* the steps of the program while the settings editor is closed
StopNext ==
    \/ FolderChange
    \/ \E t \in Loops : LoopHead(t)
    \/ \E t \in Loops : LoopCheckConfig(t)
    \/ \E t \in Loops : LoopShow(t)
    \/ \E t \in Loops : LoopXmit(t)
    \/ \E c \in Callers : SetDisplay(c)
    \/ \E c \in Callers : StartSlideshow(c)
    \/ \E c \in Callers : StartFinish(c)
    \/ \E c \in Callers : StopSlideshow(c)
    \/ \E c \in Callers : ReloadConfig(c)
    \/ \E c \in Callers : SwitchOrientation(c)
    \/ \E c \in Callers : SwitchToDefaultFolder(c)
    \/ \E c \in Callers : NextImage(c)
    \/ \E c \in Callers : PreviousImage(c)
    \/ \E c \in Callers : AssignImages(c)
    \/ \E c \in Callers : ResetIndex(c)
    \/ \E c \in Callers : ShowNow(c)
    \/ \E c \in Callers : ShowNowXmit(c)

\* The loop threads are scheduled: time.sleep returns after the interval, a
\* call of display_image_with_overlay returns or raises, and a thread that
\* can take a step takes it.
StopSpec == Init /\ [][StopNext]_vars /\ \A t \in Loops : WF_vars(LoopStep(t))

\* C11: stop_slideshow returns at once with running false, whatever the loop
\* threads are doing; while running is false no loop thread starts to send
\* an image; and when running is false, then, unless start_slideshow sets it
\* again, every loop thread eventually ends.
C11_StopEndsLoop ==
    /\ [][\A c \in Callers :
             /\ StopSlideshow(c) => (~running' /\ call'[c].pc = "idle")
             /\ \A t \in Loops :
                   (~running /\ loop[t].pc # "xmit") => loop'[t].pc # "xmit"]_vars
    /\ (~running /\ ActiveLoops # {}) ~> (running \/ ActiveLoops = {})

\* stop_slideshow has returned while a loop thread is inside the display call
C11_StoppedWhileSending ==
    /\ ~running
    /\ \E t \in Loops : loop[t].pc = "xmit"
    /\ \A c \in Callers : Idle(c)

\* ------------------------------------------------------------- images
\* Images are followed by their size, by the operations of PIL applied to
\* them (ops) and by the rectangle <<x, y, w, h>> of the frame that holds
\* the picture (box).  A source image has a size and an EXIF state: "none"
\* (no EXIF data), "untagged" (EXIF data without the orientation tag 0x0112)
\* or the value of the tag.
Sides == {1, 100, 320, 480, 1000}
ExifTags == {"none", "untagged", "1", "3", "6", "8"}
Sources == [w : Sides, h : Sides, exif : ExifTags]

\* the operations of PIL that can raise: reading the size ("size"),
\* Image.rotate with expand ("rotate"), Image.resize ("resize"), Image.new
\* and Image.paste ("compose"), the rotate(180) of a composed frame ("flip")
Steps == {"size", "rotate", "resize", "compose", "flip"}

\* Image.open
Opened(src) ==
    [w |-> src.w, h |-> src.h, ops |-> <<>>, box |-> <<0, 0, src.w, src.h>>]

\* Image.rotate(deg, expand=True) for deg in 90, 180, 270
rotate_expand(im, deg, op) ==
    LET nw == IF deg = 180 THEN im.w ELSE im.h
        nh == IF deg = 180 THEN im.h ELSE im.w
    IN [w |-> nw, h |-> nh, ops |-> Append(im.ops, op), box |-> <<0, 0, nw, nh>>]

\* Image.rotate(180): the size is kept, the picture turns with the frame
rotate_180(im) ==
    [im EXCEPT !.ops = Append(@, "flip"),
               !.box = <<im.w - im.box[1] - im.box[3],
                         im.h - im.box[2] - im.box[4], im.box[3], im.box[4]>>]

\* Image.resize((w, h))
resize(im, w, h, op) ==
    [w |-> w, h |-> h, ops |-> Append(im.ops, op), box |-> <<0, 0, w, h>>]

\* a paste into the upper left corner of the canvas
paste_top_left(im, tw, th) ==
    [w |-> tw, h |-> th, ops |-> Append(im.ops, "paste"),
     box |-> <<0, 0, im.w, im.h>>]

\* Image.new('RGB', (tw, th)) and paste of im centred on it
paste_centred(im, tw, th) ==
    [w |-> tw, h |-> th, ops |-> Append(im.ops, "paste"),
     box |-> <<(tw - im.w) \div 2, (th - im.h) \div 2, im.w, im.h>>]

Max(a, b) == IF a >= b THEN a ELSE b

\* int(src * scale) for scale = min(tw / sw, th / sh), for both sides
Fit(sw, sh, tw, th) ==
    IF tw * sh <= th * sw
    THEN <<tw, (sh * tw) \div sw>>
    ELSE <<(sw * th) \div sh, th>>

\* int(src * scale) in the floating point arithmetic of Python: where the
\* exact product is an integer the rounded product can lie just below it and
\* int() then gives one less; under holds the sides ("w", "h") on which this
\* happens (on none for the sources of Sides and the two panel sizes)
FitRounded(sw, sh, tw, th, under) ==
    LET n == Fit(sw, sh, tw, th)
        whole_w == IF tw * sh <= th * sw THEN TRUE ELSE (sw * th) % sh = 0
        whole_h == IF tw * sh <= th * sw THEN (sh * tw) % sw = 0 ELSE TRUE
    IN <<IF "w" \in under /\ whole_w THEN n[1] - 1 ELSE n[1],
         IF "h" \in under /\ whole_h THEN n[2] - 1 ELSE n[2]>>

\* ---------------------------------------- _prepare_image_for_display
\* a compositor that knows the portrait canvas only
target_size_portrait(d) == <<320, 480>>

\* the target size the compositor fixes for the orientation of the display d
target_size(d) ==
    IF d.frame_orientation = "Landscape" THEN <<480, 320>> ELSE <<320, 480>>

\* a compositor that turns every image by 90 degrees
rotate_always_90(im, d) == 90

\* rotate_degrees
rotate_degrees(im, d) ==
    IF d.frame_orientation = "Portrait"
    THEN (IF im.w > im.h THEN 90 ELSE 0)
    ELSE 270

\* the handler of the resize/compose block: a plain resize of the image as
\* opened, flipped for an inverted display, or the image as opened
compose_fallback(image, d, fails) ==
    LET t == target_size(d)
    IN IF "resize" \in fails THEN image
       ELSE LET fallback == resize(image, t[1], t[2], "resize")
            IN IF ~d.inverse THEN fallback
               ELSE IF "flip" \in fails THEN image
               ELSE rotate_180(fallback)

\* the handler of the whole method
outer_fallback(image, d, fails) ==
    IF "resize" \in fails THEN image
    ELSE resize(image, d.width, d.height, "resize")

\* LCDDisplay._prepare_image_for_display for the image as opened, the
\* display d, the operations that raise and the sides on which the floating
\* point product is rounded below its integer value
prepare_rounded(image, d, fails, under) ==
    LET t == target_size(d)
    IN IF d.frame_orientation = "Portrait" /\ "size" \in fails
       THEN outer_fallback(image, d, fails)
       ELSE
       LET deg == rotate_degrees(image, d)
           rotated == IF deg # 0 /\ "rotate" \notin fails
                      THEN rotate_expand(image, deg,
                                         IF deg = 90 THEN "rotate90" ELSE "rotate270")
                      ELSE image
           n == FitRounded(rotated.w, rotated.h, t[1], t[2], under)
           final == IF d.frame_orientation = "Landscape"
                    THEN resize(rotated, t[1], t[2], "resize")
                    ELSE paste_centred(resize(rotated, Max(1, n[1]), Max(1, n[2]), "fit"),
                                       t[1], t[2])
           raises == \/ "resize" \in fails
                     \/ d.frame_orientation # "Landscape" /\ "compose" \in fails
                     \/ d.inverse /\ "flip" \in fails
       IN IF raises THEN compose_fallback(image, d, fails)
          ELSE IF d.inverse THEN rotate_180(final)
          ELSE final

\* LCDDisplay._prepare_image_for_display for a source of Sides
prepare_image_for_display(image, d, fails) == prepare_rounded(image, d, fails, {})

\* -------------------------------------------------------------- overlay
Min(a, b) == IF a <= b THEN a ELSE b

\* no overlay has been asked for
NoOverlay ==
    [called |-> FALSE, show_time |-> FALSE, show_date |-> FALSE, truetype |-> FALSE,
     font_size |-> 0, margin |-> 0, padding |-> 0, radius |-> 0, raised |-> FALSE]

\* _create_overlay_font: base_font_size, with int(min(w, h) * 0.04) as an
\* integer division, for the TrueType font or for the built-in one that is
\* loaded when the TrueType font cannot be
create_overlay_font(w, h, truetype) ==
    IF truetype
    THEN Max(MIN_FONT_SIZE, (Min(w, h) * 4) \div 100) + FONT_SIZE_BONUS
    ELSE MIN_FONT_SIZE

\* _prepare_overlay_texts
prepare_overlay_texts(show_time, show_date) ==
    IF show_time THEN <<"HH:MM">> ELSE <<>>

\* margin = int(max(8, min(img_w, img_h) * 0.02))
overlay_margin(w, h) == Max(8, (Min(w, h) * 2) \div 100)

\* padding = max(6, base_font_size // 3) + 6
overlay_padding(base_font_size) == Max(6, base_font_size \div 3) + 6

\* a corner radius taken from the padding
radius_of_padding(base_font_size) == Min(12, overlay_padding(base_font_size))

\* corner_radius = min(12, base_font_size // 2)
corner_radius(base_font_size) == Min(12, base_font_size \div 2)

\* LCDDisplay._add_text_overlay(image, show_time, show_date): the image it
\* returns and what it has computed, or that it has raised; raises tells
\* what raises: "text" (measuring or drawing the text, pasting the box) or
\* "composite" (Image.alpha_composite and the conversions around it)
add_text_overlay(image, show_time, show_date, truetype, raises) ==
    LET base_font_size == create_overlay_font(image.w, image.h, truetype)
        texts == prepare_overlay_texts(show_time, show_date)
        blank == [NoOverlay EXCEPT !.called = TRUE, !.show_time = show_time,
                                   !.show_date = show_date]
        layout == [blank EXCEPT !.truetype = truetype,
                                !.font_size = base_font_size,
                                !.margin = overlay_margin(image.w, image.h),
                                !.padding = overlay_padding(base_font_size),
                                !.radius = corner_radius(base_font_size)]
    IN IF texts = <<>> THEN [image |-> image, overlay |-> blank]
       ELSE IF raises = "text"
       THEN [image |-> image, overlay |-> [layout EXCEPT !.raised = TRUE]]
       ELSE IF raises = "composite" THEN [image |-> image, overlay |-> layout]
       ELSE [image |-> [image EXCEPT !.ops = Append(@, "overlay")],
             overlay |-> layout]

\* if show_time or show_date: image = self._add_text_overlay(...); an
\* exception of the renderer ends display_image_with_overlay with False
DisplayOverlay ==
    /\ img.pc = "overlay"
    /\ \E show_time \in BOOLEAN, show_date \in BOOLEAN, truetype \in BOOLEAN,
          raises \in {"none", "text", "composite"} :
          img' = IF ~(show_time \/ show_date)
                 THEN [img EXCEPT !.pc = "send"]
                 ELSE LET r == add_text_overlay(img.frame, show_time, show_date,
                                                truetype, raises)
                      IN IF r.overlay.raised
                         THEN [img EXCEPT !.pc = "done", !.ret = "false",
                                          !.overlay = r.overlay]
                         ELSE [img EXCEPT !.pc = "send", !.frame = r.image,
                                          !.overlay = r.overlay]
    /\ UNCHANGED <<disk, fs, config, display, lcd, running, current_images,
                   current_index, slideshow_thread, reload_lock, loop, call, obs>>

\* --------------------------------- PhotoFrame.scale_image_to_screen
\* the value None
None == [w |-> 0, h |-> 0, ops |-> <<>>, box |-> <<0, 0, 0, 0>>]

\* the parameter orientation after the EXIF block: the block assigns the
\* value of the tag to it whenever the image has EXIF data
orientation_after_exif(src, orientation) ==
    IF src.exif = "none" THEN orientation
    ELSE IF src.exif = "untagged" THEN "None"
    ELSE src.exif

\* the image after the EXIF block, whose exceptions are passed over
exif_corrected(image, src, fails) ==
    IF src.exif \notin {"3", "6", "8"} \/ "rotate" \in fails THEN image
    ELSE IF src.exif = "3" THEN rotate_expand(image, 180, "exif180")
    ELSE IF src.exif = "6" THEN rotate_expand(image, 270, "exif270")
    ELSE rotate_expand(image, 90, "exif90")

\* the rotation for the panel: 90, 180 or 0 degrees
legacy_rotation(src, rotate180, orientation) ==
    IF orientation_after_exif(src, orientation) = "Landscape" THEN 90
    ELSE IF rotate180 THEN 180
    ELSE 0

\* PhotoFrame.scale_image_to_screen(image_path, screen_width, screen_height,
\* maintain_aspect_ratio, rotate_180, orientation) for the operations that
\* raise: Image.resize also raises for a side of 0 pixels
scale_image_to_screen(src, sw, sh, maintain, rotate180, orientation, fails) ==
    LET corrected == exif_corrected(Opened(src), src, fails)
        deg == legacy_rotation(src, rotate180, orientation)
        rotated == IF deg = 0 THEN corrected
                   ELSE rotate_expand(corrected, deg,
                                      IF deg = 90 THEN "rotate90" ELSE "rotate180")
        n == Fit(rotated.w, rotated.h, sw, sh)
        raises == \/ deg # 0 /\ "rotate" \in fails
                  \/ "resize" \in fails
                  \/ maintain /\ "compose" \in fails
                  \/ maintain /\ (n[1] = 0 \/ n[2] = 0)
    IN IF raises THEN None
       ELSE IF maintain
       THEN paste_centred(resize(rotated, n[1], n[2], "fit"), sw, sh)
       ELSE resize(rotated, sw, sh, "resize")

\* scale_image_to_screen is called for the screen of the display
LegacyScale ==
    /\ img.pc = "none"
    /\ \E src \in Sources, fails \in SUBSET (Steps \ {"size", "flip"}),
          maintain \in BOOLEAN, rotate180 \in BOOLEAN,
          orientation \in {"Portrait", "Landscape"} :
          img' = [pc |-> "done", entry |-> "scale_image_to_screen", src |-> src,
                  fails |-> fails, accessors |-> FALSE,
                  frame |-> scale_image_to_screen(src, lcd.width, lcd.height,
                                                  maintain, rotate180, orientation, fails),
                  handed |-> FALSE, pil |-> 0, bitmap |-> 0, saved |-> FALSE,
                  temp |-> FALSE, kept |-> FALSE, ret |-> "none",
                  overlay |-> NoOverlay, maintain |-> maintain, rotate_180 |-> rotate180,
                  orientation |-> orientation]
    /\ UNCHANGED <<disk, fs, config, display, lcd, running, current_images,
                   current_index, slideshow_thread, reload_lock, loop, call, obs>>

\* ------------------------------------------------------------ LCDDisplay
\* What a configuration file can hold for the display: a mapping with an
\* orientation (any string, or none at all: "missing") and an inverse flag,
\* or something that is not a mapping of mappings ("malformed").
RawOrientations ==
    {"Portrait", "Landscape", "portrait", "landscape", "LANDSCAPE", "sideways",
     "missing"}
RawConfigs == [shape : {"dict", "malformed"}, orientation : RawOrientations,
               inverse : BOOLEAN]

\* photos.orientation, or config.PHOTO_FRAME_ORIENTATION with its default
raw_orientation(raw) ==
    IF raw.orientation = "missing" THEN "Portrait" ELSE raw.orientation

\* LCDDisplay.__init__: the fields after construction with the file raw
lcd_init(raw) ==
    LET o == Capitalize(raw_orientation(raw))
        fo == IF raw.shape = "malformed" THEN "Portrait"
              ELSE IF o \in {"Portrait", "Landscape"} THEN o ELSE "Portrait"
    IN [frame_orientation |-> fo,
        inverse |-> IF raw.shape = "malformed" THEN FALSE ELSE raw.inverse,
        width |-> IF fo = "Portrait" THEN 320 ELSE 480,
        height |-> IF fo = "Portrait" THEN 480 ELSE 320]

\* LCDDisplay.apply_config of the display d with the configuration raw: a
\* configuration that makes the method raise leaves the display as it was
lcd_apply_config(d, raw) ==
    IF raw.shape = "malformed" THEN d
    ELSE apply_config([orientation |-> raw_orientation(raw), inverse |-> raw.inverse])

\* the display sink's get_width() and get_height(): the geometry of the
\* panel for the active orientation
sink_size(d) ==
    IF d.frame_orientation = "Landscape" THEN <<480, 320>> ELSE <<320, 480>>

\* lcd_w, lcd_h of display_image, display_image_with_overlay and
\* _send_image_to_lcd: the accessors of the sink when it has them and they
\* do not raise, the fields of the display otherwise
lcd_size(d, accessors) ==
    IF accessors THEN sink_size(d) ELSE <<d.width, d.height>>

\* the display is constructed (again) from the configuration file raw
LcdConstruct ==
    /\ img.pc = "none"
    /\ \E raw \in RawConfigs :
          /\ lcd' = lcd_init(raw)
          /\ img' = [pc |-> "none", op |-> "__init__", raw |-> raw]
    /\ UNCHANGED <<disk, fs, config, display, running, current_images,
                   current_index, slideshow_thread, reload_lock, loop, call, obs>>

\* apply_config is called between two images; the configuration applied is
\* remembered until the next image
LcdApplyConfig ==
    /\ img.pc = "none"
    /\ \E raw \in RawConfigs :
          /\ lcd' = lcd_apply_config(lcd, raw)
          /\ img' = [pc |-> "none", op |-> "apply_config", raw |-> raw]
    /\ UNCHANGED <<disk, fs, config, display, running, current_images,
                   current_index, slideshow_thread, reload_lock, loop, call, obs>>

\* display_image (overlay FALSE) or display_image_with_overlay is called for
\* a source image: the sink is connected or not, has the accessors or not,
\* and the operations in fails raise
DisplayOpen ==
    /\ img.pc = "none"
    /\ \E src \in Sources, fails \in SUBSET Steps, connected \in BOOLEAN,
          accessors \in BOOLEAN, entry \in {"display_image", "with_overlay"} :
          img' = IF ~connected
                 THEN [pc |-> "done", entry |-> entry, src |-> src, fails |-> fails,
                       accessors |-> accessors, frame |-> Opened(src),
                       handed |-> FALSE, pil |-> 0, bitmap |-> 0, saved |-> FALSE,
                       temp |-> FALSE, kept |-> FALSE, ret |-> "false",
                       overlay |-> NoOverlay]
                 ELSE [pc |-> "opened", entry |-> entry, src |-> src, fails |-> fails,
                       accessors |-> accessors, frame |-> Opened(src),
                       handed |-> FALSE, pil |-> 0, bitmap |-> 0, saved |-> FALSE,
                       temp |-> FALSE, kept |-> FALSE, ret |-> "none",
                       overlay |-> NoOverlay]
    /\ UNCHANGED <<disk, fs, config, display, lcd, running, current_images,
                   current_index, slideshow_thread, reload_lock, loop, call, obs>>

\* image = self._prepare_image_for_display(image)
DisplayPrepare ==
    /\ img.pc = "opened"
    /\ img' = [img EXCEPT !.pc = "prepared",
                          !.frame = prepare_image_for_display(img.frame, lcd, img.fails)]
    /\ UNCHANGED <<disk, fs, config, display, lcd, running, current_images,
                   current_index, slideshow_thread, reload_lock, loop, call, obs>>

\* the frame is brought to lcd_w x lcd_h when it has another size.  In
\* display_image_with_overlay a resize that raises ends the call with False;
\* in display_image it leads to the file-based transmission of the frame as
\* it is.
DisplayEnsureSize ==
    /\ img.pc = "prepared"
    /\ LET s == lcd_size(lcd, img.accessors)
           fits == img.frame.w = s[1] /\ img.frame.h = s[2]
           after == IF img.entry = "with_overlay" THEN "overlay" ELSE "send"
       IN img' = IF fits THEN [img EXCEPT !.pc = after]
                 ELSE IF "resize" \notin img.fails
                 THEN [img EXCEPT !.pc = after,
                                  !.frame = resize(img.frame, s[1], s[2], "resize")]
                 ELSE IF img.entry = "with_overlay"
                 THEN [img EXCEPT !.pc = "done", !.ret = "false"]
                 ELSE [img EXCEPT !.pc = "fallback"]
    /\ UNCHANGED <<disk, fs, config, display, lcd, running, current_images,
                   current_index, slideshow_thread, reload_lock, loop, call, obs>>

\* self.lcd.DisplayPILImage(image, 0, 0, w, h): the frame is handed to the
\* sink, which takes it or raises
DisplayPILImage ==
    /\ img.pc = "send"
    /\ \E raises \in BOOLEAN :
          img' = IF raises
                 THEN [img EXCEPT !.pc = "fallback", !.handed = TRUE, !.pil = @ + 1]
                 ELSE [img EXCEPT !.pc = "done", !.handed = TRUE, !.pil = @ + 1,
                                  !.ret = "ok"]
    /\ UNCHANGED <<disk, fs, config, display, lcd, running, current_images,
                   current_index, slideshow_thread, reload_lock, loop, call, obs>>

\* image.save(temp_path): the file is written, or save raises and leaves no
\* file.  In display_image nothing else is done when save raises.
DisplaySave ==
    /\ img.pc = "fallback"
    /\ \E raises \in BOOLEAN :
          img' = IF ~raises
                 THEN [img EXCEPT !.pc = "saved", !.saved = TRUE, !.temp = TRUE]
                 ELSE IF img.entry = "with_overlay"
                 THEN [img EXCEPT !.pc = "cleanup", !.ret = "false"]
                 ELSE [img EXCEPT !.pc = "done", !.ret = "false"]
    /\ UNCHANGED <<disk, fs, config, display, lcd, running, current_images,
                   current_index, slideshow_thread, reload_lock, loop, call, obs>>

\* self.lcd.DisplayBitmap(temp_path, 0, 0): the sink takes the file or raises
DisplayBitmap ==
    /\ img.pc = "saved"
    /\ \E raises \in BOOLEAN :
          img' = [img EXCEPT !.pc = "cleanup", !.handed = TRUE, !.bitmap = @ + 1,
                             !.ret = IF raises THEN "false" ELSE "ok"]
    /\ UNCHANGED <<disk, fs, config, display, lcd, running, current_images,
                   current_index, slideshow_thread, reload_lock, loop, call, obs>>

\* a fallback that returns without removing the file
ReturnWithoutRemove ==
    /\ img.pc = "cleanup"
    /\ img' = [img EXCEPT !.pc = "done"]
    /\ UNCHANGED <<disk, fs, config, display, lcd, running, current_images,
                   current_index, slideshow_thread, reload_lock, loop, call, obs>>

\* finally: os.remove(temp_path), whose errors are caught: a file that is
\* not there, or one that cannot be removed and stays
DisplayRemove ==
    /\ img.pc = "cleanup"
    /\ \E raises \in BOOLEAN :
          img' = IF img.temp /\ ~raises
                 THEN [img EXCEPT !.pc = "done", !.temp = FALSE]
                 ELSE [img EXCEPT !.pc = "done", !.kept = img.temp]
    /\ UNCHANGED <<disk, fs, config, display, lcd, running, current_images,
                   current_index, slideshow_thread, reload_lock, loop, call, obs>>

\* the call returns img.ret and the frame is dropped
DisplayReturn ==
    /\ img.pc = "done"
    /\ img' = NoImage
    /\ UNCHANGED <<disk, fs, config, display, lcd, running, current_images,
                   current_index, slideshow_thread, reload_lock, loop, call, obs>>

DisplayNext ==
    \/ LcdConstruct
    \/ LcdApplyConfig
    \/ DisplayOpen
    \/ DisplayPrepare
    \/ DisplayEnsureSize
    \/ DisplayOverlay
    \/ DisplayPILImage
    \/ DisplaySave
    \/ DisplayBitmap
    \/ DisplayRemove
    \/ DisplayReturn
    \/ LegacyScale

DisplaySpec == Init /\ [][DisplayNext]_vars

Composed ==
    \/ img.pc = "prepared"
    \/ img.pc = "done" /\ img.entry = "scale_image_to_screen"

\* the plain resize of the source to the target size, and the source as it is
PlainResize(src, w, h) == resize(Opened(src), w, h, "resize")

\* a rotate, resize or compose step of the call has raised
StepFailed ==
    IF img.entry = "scale_image_to_screen"
    THEN \/ img.frame = None
         \/ img.src.exif \in {"3", "6", "8"} /\ "rotate" \in img.fails
    ELSE \/ lcd.frame_orientation = "Portrait" /\ "size" \in img.fails
         \/ rotate_degrees(Opened(img.src), lcd) # 0 /\ "rotate" \in img.fails
         \/ "resize" \in img.fails
         \/ lcd.frame_orientation = "Portrait" /\ "compose" \in img.fails
         \/ lcd.inverse /\ "flip" \in img.fails

\* C14: the compositor always returns an image, and when one of its rotate,
\* resize or compose steps has failed that image is the plain resize of the
\* source to the target size (no rotation, no letterbox) or the source
\* untouched; for _prepare_image_for_display and for scale_image_to_screen.
C14_FallbackIsPlainResize ==
    Composed =>
       /\ img.frame # None
       /\ StepFailed =>
             img.frame \in {PlainResize(img.src, lcd.width, lcd.height),
                            Opened(img.src)}

\* the operations of a frame without the inverse flip
Unflipped(ops) == SelectSeq(ops, LAMBDA o : o # "flip")

\* C15: on a Landscape display the compositor stretches the rotated image,
\* without letterbox, to the portrait-style canvas of 320 x 480 and not to
\* 480 x 320.
C15_LandscapeOnPortraitCanvas ==
    (img.pc = "prepared" /\ lcd.frame_orientation = "Landscape" /\ ~StepFailed)
       => /\ Unflipped(img.frame.ops) = <<"rotate270", "resize">>
          /\ img.frame.w = 320 /\ img.frame.h = 480

\* a step after the panel rotation has raised
ComposeFailed ==
    \/ lcd.frame_orientation = "Portrait" /\ "size" \in img.fails
    \/ "resize" \in img.fails
    \/ lcd.frame_orientation = "Portrait" /\ "compose" \in img.fails
    \/ lcd.inverse /\ "flip" \in img.fails

ExifOps(ops) == SelectSeq(ops, LAMBDA o : o \in {"exif180", "exif270", "exif90"})

\* C17: the compositor first corrects the EXIF orientation (180 degrees for
\* tag 3, 270 for tag 6, 90 for tag 8, nothing otherwise), and the rotation
\* for the panel is the one it applies to the same image without EXIF data.
C17_ExifCorrectionFirst ==
    (Composed /\ ~StepFailed) =>
       /\ ExifOps(img.frame.ops) =
             (CASE img.src.exif = "3" -> <<"exif180">>
                [] img.src.exif = "6" -> <<"exif270">>
                [] img.src.exif = "8" -> <<"exif90">>
                [] OTHER -> <<>>)
       /\ ExifOps(img.frame.ops) # <<>> => img.frame.ops[1] = ExifOps(img.frame.ops)[1]
       /\ img.entry = "scale_image_to_screen" =>
             legacy_rotation(img.src, img.rotate_180, img.orientation)
                = legacy_rotation([img.src EXCEPT !.exif = "none"],
                                  img.rotate_180, img.orientation)

\* C18: the display is always in Portrait or Landscape orientation, 320 wide
\* and 480 high in Portrait and 480 wide and 320 high in Landscape, after its
\* construction and after apply_config with any configuration (lower-case,
\* missing or invalid orientations, and configurations that make it raise).
C18_PanelGeometry ==
    /\ lcd.frame_orientation \in {"Portrait", "Landscape"}
    /\ lcd.frame_orientation = "Portrait" => (lcd.width = 320 /\ lcd.height = 480)
    /\ lcd.frame_orientation = "Landscape" => (lcd.width = 480 /\ lcd.height = 320)

\* apply_config has been given the orientation in lower case and has made
\* the display a landscape one
C18_LowerCaseApplied ==
    /\ img = [pc |-> "none", op |-> "apply_config",
              raw |-> [shape |-> "dict", orientation |-> "landscape", inverse |-> TRUE]]
    /\ lcd = [frame_orientation |-> "Landscape", inverse |-> TRUE,
              width |-> 480, height |-> 320]

\* the call is over and DisplayPILImage had raised in it
PILImageRaised ==
    /\ img.pc = "done"
    /\ img.entry \in {"display_image", "with_overlay"}
    /\ img.pil = 1
    /\ img.ret = "false" \/ img.saved

\* C19 as stated: when DisplayPILImage fails the frame is written to a
\* temporary file and transmitted with DisplayBitmap exactly once, the file
\* is gone afterwards, and the call returns True or False, never raises, so
\* that the loop goes on to its next cycle.
C19_FallbackOnceFileDeleted ==
    PILImageRaised =>
       /\ img.saved /\ img.bitmap = 1
       /\ ~img.temp
       /\ img.ret \in {"ok", "false"}
       /\ after_display(img.ret) \in {"sent", "failed"}

\* C19, amended: when DisplayPILImage fails the frame is saved to a temporary
\* file and, if and only if it could be saved, transmitted with DisplayBitmap
\* exactly once; afterwards the file is gone unless its removal raised
\* (which is ignored); the call returns True only after a transmission and
\* False otherwise, never raises, and the loop goes on to its next cycle.
C19_FallbackOnceRemovalAttempted ==
    PILImageRaised =>
       /\ img.bitmap = (IF img.saved THEN 1 ELSE 0)
       /\ img.temp => img.kept
       /\ img.ret \in {"ok", "false"}
       /\ img.ret = "ok" => img.bitmap = 1
       /\ after_display(img.ret) \in {"sent", "failed"}

\* the file-based transmission has failed after DisplayPILImage, the file is
\* gone and the call has returned False
C19_FailedFallbackCleaned ==
    /\ PILImageRaised
    /\ img.saved /\ img.bitmap = 1 /\ img.ret = "false"
    /\ ~img.temp /\ ~img.kept

\* ------------------------------------------------------------ playlists
\* constants.SUPPORTED_IMAGE_EXTENSIONS
SUPPORTED_IMAGE_EXTENSIONS == {".jpg", ".jpeg", ".png", ".bmp", ".gif", ".tiff"}

\* photo_frame.PhotoFrame.SUPPORTED_EXTENSIONS without the leading '*'
SUPPORTED_EXTENSIONS == {".png", ".jpg", ".jpeg", ".bmp", ".gif", ".webp"}

\* sorted(list(S)) for entries of one folder
RECURSIVE sorted(_)
sorted(S) ==
    IF S = {} THEN <<>>
    ELSE LET first == CHOOSE e \in S : \A o \in S : e.n <= o.n
         IN <<first>> \o sorted(S \ {first})

\* photo_frame.PhotoFrame.load_images_from_folder
load_images_from_folder(f) ==
    IF fs[f] = 0 THEN <<>>
    ELSE sorted({e \in Listing(f, fs[f]) : Lower(e.suffix) \in SUPPORTED_EXTENSIONS})

\* the folders hold from no entry up to three more than MaxFiles
LoadEntries == 0..(MaxFiles + 3)

LoadInit ==
    /\ disk = [orientation |-> "portrait", portrait_folder |-> "A",
               landscape_folder |-> "B", inverse |-> FALSE]
    /\ fs \in [Folders -> LoadEntries]
    /\ config = disk
    /\ display = FALSE
    /\ lcd = apply_config(disk)
    /\ running = FALSE
    /\ current_images = <<>>
    /\ current_index = 0
    /\ slideshow_thread = 0
    /\ reload_lock = FALSE
    /\ loop = [t \in Loops |-> [pc |-> "none", path |-> NoFile, failed |-> "none"]]
    /\ call = [c \in Callers |->
                 [op |-> "none", pc |-> "idle", path |-> NoFile, ret |-> "none"]]
    /\ obs = [ticks |-> 0 - 1, reloaded |-> FALSE, first |-> "none"]
    /\ img = NoImage

\* PhotoFrame.load_images() with slideshow.shuffle set or not in the
\* configuration file: the flag is not read
LoadImages ==
    /\ \E shuffle \in BOOLEAN, readable \in Readable :
          LET fresh_cfg == load_config(disk, readable)
          IN /\ config' = fresh_cfg
             /\ current_images' \in load_images(fresh_cfg)
             /\ img' = [pc |-> "none", op |-> "load_images",
                        folder |-> image_folder(fresh_cfg), shuffle |-> shuffle]
    /\ UNCHANGED <<disk, fs, display, lcd, running, current_index,
                   slideshow_thread, reload_lock, loop, call, obs>>

\* photo_frame.PhotoFrame.load_images_from_folder(folder_path); the order of
\* display is chosen later, by get_next_image(random_order)
LoadImagesFromFolder ==
    /\ \E f \in Folders, shuffle \in BOOLEAN :
          /\ current_images' = load_images_from_folder(f)
          /\ img' = [pc |-> "none", op |-> "load_images_from_folder",
                     folder |-> f, shuffle |-> shuffle]
    /\ current_index' = 0
    /\ UNCHANGED <<disk, fs, config, display, lcd, running,
                   slideshow_thread, reload_lock, loop, call, obs>>

LoadNext == LoadImages \/ LoadImagesFromFolder

LoadSpec == LoadInit /\ [][LoadNext]_vars

\* the entries of the playlist, and the playlist being in sorted order
Range(seq) == {seq[i] : i \in 1..Len(seq)}
InOrder(seq) == \A i \in 1..Len(seq), j \in 1..Len(seq) : i < j => seq[i].n < seq[j].n

\* C20: the playlist loaded for a folder holds exactly the files of the
\* folder whose extension, in lower case, is one of .jpg, .jpeg, .png, .bmp,
\* .gif, .webp, .tiff, each once, and it is in sorted order when the shuffle
\* flag is off.
C20_PlaylistOfFolder ==
    (img # NoImage /\ img.pc = "none" /\ img.op \in {"load_images", "load_images_from_folder"})
       => /\ Range(current_images) =
                {e \in Listing(img.folder, fs[img.folder]) :
                    Lower(e.suffix) \in {".jpg", ".jpeg", ".png", ".bmp", ".gif",
                                         ".webp", ".tiff"}}
          /\ Len(current_images) = Cardinality(Range(current_images))
          /\ ~img.shuffle => InOrder(current_images)

\* ----------------------------------------------------------- serialize
\* the operators &, |, << and >> of Python on non-negative integers
RECURSIVE BitAnd(_, _)
BitAnd(a, b) ==
    IF a = 0 \/ b = 0 THEN 0
    ELSE (IF a % 2 = 1 /\ b % 2 = 1 THEN 1 ELSE 0) + 2 * BitAnd(a \div 2, b \div 2)

RECURSIVE BitOr(_, _)
BitOr(a, b) ==
    IF a = 0 THEN b
    ELSE IF b = 0 THEN a
    ELSE (IF a % 2 = 1 \/ b % 2 = 1 THEN 1 ELSE 0) + 2 * BitOr(a \div 2, b \div 2)

ShiftLeft(a, n) == a * 2 ^ n
ShiftRight(a, n) == a \div 2 ^ n

\* the values of a channel that are followed: the ends of the range, the
\* neighbours of the steps of the 5 and 6 bit scales, single bits
Channels == {0, 1, 2, 3, 4, 8, 9, 15, 16, 17, 32, 127, 128, 130, 254, 255}

\* a channel scaled by an integer division that rounds to nearest
scaled_rounded(c, max) == (c * max + 127) \div 255

\* (c * max) // 255
scaled(c, max) == (c * max) \div 255

\* the 16-bit value of a pixel in image_to_RGB565
rgb565_value(px) ==
    BitOr(BitOr(ShiftLeft(scaled(px[1], 31), 11), ShiftLeft(scaled(px[2], 63), 5)),
          scaled(px[3], 31))

\* image_to_RGB565(image, endianness) for the pixels of an image
RECURSIVE image_to_RGB565(_, _)
image_to_RGB565(pixels, endianness) ==
    IF pixels = <<>> THEN <<>>
    ELSE LET value == rgb565_value(Head(pixels))
             lo == BitAnd(value, 255)
             hi == BitAnd(ShiftRight(value, 8), 255)
         IN (IF endianness = "little" THEN <<lo, hi>> ELSE <<hi, lo>>)
            \o image_to_RGB565(Tail(pixels), endianness)

\* image_to_compressed_BGRA(image) for the RGBA pixels of an image
RECURSIVE image_to_compressed_BGRA(_)
image_to_compressed_BGRA(pixels) ==
    IF pixels = <<>> THEN <<>>
    ELSE LET pixel == Head(pixels)
             a == ShiftRight(pixel[4], 4)
         IN <<BitOr(BitAnd(pixel[3], 252), ShiftRight(a, 2)),
              BitOr(BitAnd(pixel[2], 252), BitAnd(a, 2)),
              pixel[1]>>
            \o image_to_compressed_BGRA(Tail(pixels))

\* image_to_RGB565 is called for an image of one pixel, or of two pixels of
\* the pure colours
SerializeRGB565 ==
    /\ img = NoImage
    /\ \E pixels \in {<<px>> : px \in Channels \X Channels \X Channels}
                     \cup ({<<255, 0, 0>>, <<0, 255, 0>>, <<0, 0, 255>>}
                           \X {<<255, 0, 0>>, <<0, 255, 0>>, <<0, 0, 255>>}),
          endianness \in {"big", "little"} :
          img' = [pc |-> "done", op |-> "image_to_RGB565", pixels |-> pixels,
                  endianness |-> endianness,
                  out |-> image_to_RGB565(pixels, endianness)]
    /\ UNCHANGED <<disk, fs, config, display, lcd, running, current_images,
                   current_index, slideshow_thread, reload_lock, loop, call, obs>>

\* image_to_compressed_BGRA is called for an image of one pixel
SerializeCompressedBGRA ==
    /\ img = NoImage
    /\ \E px \in Channels \X Channels \X Channels \X Channels :
          img' = [pc |-> "done", op |-> "image_to_compressed_BGRA",
                  pixels |-> <<px>>, endianness |-> "none",
                  out |-> image_to_compressed_BGRA(<<px>>)]
    /\ UNCHANGED <<disk, fs, config, display, lcd, running, current_images,
                   current_index, slideshow_thread, reload_lock, loop, call, obs>>

\* the bytes are returned
SerializeReturn ==
    /\ img # NoImage /\ img.pc = "done"
    /\ img.op \in {"image_to_RGB565", "image_to_compressed_BGRA"}
    /\ img' = NoImage
    /\ UNCHANGED <<disk, fs, config, display, lcd, running, current_images,
                   current_index, slideshow_thread, reload_lock, loop, call, obs>>

SerializeNext == SerializeRGB565 \/ SerializeCompressedBGRA \/ SerializeReturn

SerializeSpec == Init /\ [][SerializeNext]_vars

\* C21: for every pixel image_to_RGB565 emits the 16-bit value
\* ((r*31) div 255) * 2^11 + ((g*63) div 255) * 2^5 + ((b*31) div 255), the
\* divisions truncating, as two bytes, the high byte first for big and the
\* low byte first for little endianness; the value is below 2^16, the little
\* endian output is the big endian output with the bytes of each pixel
\* swapped, and pure red, green and blue give 0xF800, 0x07E0 and 0x001F.
C21_RGB565 ==
    (img # NoImage /\ img.op = "image_to_RGB565") =>
       /\ Len(img.out) = 2 * Len(img.pixels)
       /\ \A i \in 1..Len(img.pixels) :
             LET px == img.pixels[i]
                 value == ((px[1] * 31) \div 255) * 2048
                          + ((px[2] * 63) \div 255) * 32
                          + ((px[3] * 31) \div 255)
                 first == img.out[2 * i - 1]
                 second == img.out[2 * i]
                 big == image_to_RGB565(img.pixels, "big")
                 little == image_to_RGB565(img.pixels, "little")
             IN /\ value < 65536
                /\ img.endianness = "big" => (first = value \div 256 /\ second = value % 256)
                /\ img.endianness = "little" => (first = value % 256 /\ second = value \div 256)
                /\ little[2 * i - 1] = big[2 * i] /\ little[2 * i] = big[2 * i - 1]
                /\ px = <<255, 0, 0>> => 256 * big[2 * i - 1] + big[2 * i] = 63488
                /\ px = <<0, 255, 0>> => 256 * big[2 * i - 1] + big[2 * i] = 2016
                /\ px = <<0, 0, 255>> => 256 * big[2 * i - 1] + big[2 * i] = 31

\* pure red followed by pure green has been encoded in little endianness
C21_RedGreenLittle ==
    /\ img # NoImage /\ img.op = "image_to_RGB565" /\ img.endianness = "little"
    /\ img.pixels = <<(<<255, 0, 0>>), (<<0, 255, 0>>)>>
    /\ img.out = <<0, 248, 224, 7>>

\* C22: for every pixel image_to_compressed_BGRA emits three bytes: B with
\* the top 6 bits of b, G with the top 6 bits of g, each with two bits of
\* alpha in its low 2 bits, and R in full, so that the 4 high bits of alpha
\* are the low 2 bits of the B byte followed by the low 2 bits of the G byte.
C22_AlphaRecoverable ==
    (img # NoImage /\ img.op = "image_to_compressed_BGRA") =>
       LET px == img.pixels[1]
       IN /\ Len(img.out) = 3
          /\ img.out[1] \div 4 = px[3] \div 4
          /\ img.out[2] \div 4 = px[2] \div 4
          /\ img.out[3] = px[1]
          /\ 4 * (img.out[1] % 4) + (img.out[2] % 4) = px[4] \div 16

\* ------------------------------------------------- overlay on any frame
\* the sides of the frames the overlay is followed on: the panel's, and
\* those around which the font size and the margin change
FrameSides == {1, 100, 320, 399, 400, 424, 425, 449, 450, 480, 1000, 4000}

\* display_image_with_overlay has a frame of some size in hand
OverlayOpen ==
    /\ img = NoImage
    /\ \E w \in FrameSides, h \in FrameSides :
          img' = [pc |-> "overlay", entry |-> "with_overlay",
                  src |-> [w |-> w, h |-> h, exif |-> "none"], fails |-> {},
                  accessors |-> FALSE,
                  frame |-> Opened([w |-> w, h |-> h, exif |-> "none"]),
                  handed |-> FALSE, pil |-> 0, bitmap |-> 0, saved |-> FALSE,
                  temp |-> FALSE, kept |-> FALSE, ret |-> "none",
                  overlay |-> NoOverlay]
    /\ UNCHANGED <<disk, fs, config, display, lcd, running, current_images,
                   current_index, slideshow_thread, reload_lock, loop, call, obs>>

OverlayNext ==
    \/ OverlayOpen
    \/ DisplayOverlay
    \/ DisplayPILImage
    \/ DisplaySave
    \/ DisplayBitmap
    \/ DisplayRemove
    \/ DisplayReturn

OverlaySpec == Init /\ [][OverlayNext]_vars

\* the overlay renderer has been called in the call that is followed
OverlayCalled ==
    /\ img.pc \in {"send", "fallback", "saved", "cleanup", "done"}
    /\ img.entry = "with_overlay"
    /\ img.overlay.called

\* C23: the overlay renderer never raises, and with show_time False,
\* whatever show_date is, it draws nothing: the frame that goes to the sink
\* is the composited frame.
C23_OverlayNeverRaises ==
    OverlayCalled =>
       /\ ~img.overlay.raised
       /\ ~img.overlay.show_time =>
             \A i \in 1..Len(img.frame.ops) : img.frame.ops[i] # "overlay"

\* C24 as stated: font size max(16, floor(min(w, h) * 0.04)) + 11 (16 for
\* the built-in font), margin max(8, floor(min(w, h) * 0.02)), padding
\* max(6, font size div 3) + 6, and corner radius min(12, padding) with
\* either font.
C24_RadiusFromPadding ==
    (OverlayCalled /\ img.overlay.show_time) =>
       LET m == IF img.frame.w <= img.frame.h THEN img.frame.w ELSE img.frame.h
           o == img.overlay
           floor4 == (m * 4) \div 100
           floor2 == (m * 2) \div 100
       IN /\ o.font_size = IF o.truetype
                           THEN (IF floor4 >= 16 THEN floor4 ELSE 16) + 11 ELSE 16
          /\ o.margin = (IF floor2 >= 8 THEN floor2 ELSE 8)
          /\ o.padding = (IF o.font_size \div 3 >= 6 THEN o.font_size \div 3 ELSE 6) + 6
          /\ o.radius = (IF o.padding <= 12 THEN o.padding ELSE 12)

\* C24, amended: font size, margin and padding as stated, and corner radius
\* min(12, font size div 2): that is 12 = min(12, padding) with the TrueType
\* font, and 8, below the padding of 12, with the built-in font of size 16.
C24_RadiusFromFontSize ==
    (OverlayCalled /\ img.overlay.show_time) =>
       LET m == IF img.frame.w <= img.frame.h THEN img.frame.w ELSE img.frame.h
           o == img.overlay
           floor4 == (m * 4) \div 100
           floor2 == (m * 2) \div 100
       IN /\ o.font_size = IF o.truetype
                           THEN (IF floor4 >= 16 THEN floor4 ELSE 16) + 11 ELSE 16
          /\ o.margin = (IF floor2 >= 8 THEN floor2 ELSE 8)
          /\ o.padding = (IF o.font_size \div 3 >= 6 THEN o.font_size \div 3 ELSE 6) + 6
          /\ o.radius = (IF o.font_size \div 2 <= 12 THEN o.font_size \div 2 ELSE 12)
          /\ o.truetype => (o.radius = 12 /\ o.padding >= 12)
          /\ ~o.truetype => (o.radius = 8 /\ o.padding = 12)

\* the time has been drawn with the built-in font on a frame of 1000 x 450
C24_BuiltInFontDrawn ==
    /\ OverlayCalled /\ img.overlay.show_time /\ ~img.overlay.truetype
    /\ img.frame.w = 1000 /\ img.frame.h = 450
    /\ img.frame.ops = <<"overlay">>
    /\ img.overlay.margin = 9 /\ img.overlay.radius = 8

\* ----------------------------------------------------------- letterbox
\* the sides of the sources the letterbox is followed on
LetterSides == {1, 11, 13, 49, 50, 100, 107, 319, 320, 321, 479, 480, 481, 1000, 4000}

\* _prepare_image_for_display is called for a source of any of these sizes
LetterboxOpen ==
    /\ img.pc = "none"
    /\ \E w \in LetterSides, h \in LetterSides, under \in SUBSET {"w", "h"} :
          img' = [pc |-> "opened", entry |-> "_prepare_image_for_display",
                  src |-> [w |-> w, h |-> h, exif |-> "none"], fails |-> {},
                  under |-> under,
                  frame |-> Opened([w |-> w, h |-> h, exif |-> "none"])]
    /\ UNCHANGED <<disk, fs, config, display, lcd, running, current_images,
                   current_index, slideshow_thread, reload_lock, loop, call, obs>>

\* the compositor returns the frame
LetterboxPrepare ==
    /\ img.pc = "opened" /\ img.entry = "_prepare_image_for_display"
    /\ img' = [img EXCEPT !.pc = "prepared",
                          !.frame = prepare_rounded(img.frame, lcd, img.fails, img.under)]
    /\ UNCHANGED <<disk, fs, config, display, lcd, running, current_images,
                   current_index, slideshow_thread, reload_lock, loop, call, obs>>

\* the frame is dropped
LetterboxReturn ==
    /\ img.pc = "prepared" /\ img.entry = "_prepare_image_for_display"
    /\ img' = NoImage
    /\ UNCHANGED <<disk, fs, config, display, lcd, running, current_images,
                   current_index, slideshow_thread, reload_lock, loop, call, obs>>

LetterboxNext ==
    \/ LcdApplyConfig
    \/ LetterboxOpen
    \/ LetterboxPrepare
    \/ LetterboxReturn

LetterboxSpec == Init /\ [][LetterboxNext]_vars

\* C25: in Portrait mode, for every source size, the scaled image fits the
\* canvas of 320 x 480 in both axes and fills one of them (up to the pixel
\* that the rounding of the product can take), and it is pasted centred:
\* the margins left and right, and those above and below, are equal, or
\* differ by one pixel when the slack is odd.  A source of 100 x 50 has
\* margins of 40 pixels left and right and none above and below.
C25_LetterboxCentred ==
    (img.pc = "prepared" /\ img.entry = "_prepare_image_for_display"
       /\ lcd.frame_orientation = "Portrait") =>
       LET left == img.frame.box[1]
           top == img.frame.box[2]
           bw == img.frame.box[3]
           bh == img.frame.box[4]
           right == 320 - left - bw
           bottom == 480 - top - bh
       IN /\ img.frame.w = 320 /\ img.frame.h = 480
          /\ bw >= 1 /\ bh >= 1 /\ bw <= 320 /\ bh <= 480
          /\ bw >= 319 \/ bh >= 479
          /\ left >= 0 /\ top >= 0
          /\ right - left \in {0 - 1, 0, 1} /\ bottom - top \in {0 - 1, 0, 1}
          /\ (320 - bw) % 2 = 0 => left = right
          /\ (480 - bh) % 2 = 0 => top = bottom
          /\ (img.src.w = 100 /\ img.src.h = 50 /\ img.under = {}) =>
                (left = 40 /\ right = 40 /\ top = 0 /\ bottom = 0)

\* a source of 100 x 50 has been composed for an inverted portrait panel
C25_Source100x50 ==
    /\ img.pc = "prepared" /\ img.entry = "_prepare_image_for_display"
    /\ lcd.frame_orientation = "Portrait" /\ lcd.inverse
    /\ img.src.w = 100 /\ img.src.h = 50 /\ img.under = {}
    /\ img.frame.box = <<40, 0, 240, 480>>
    /\ img.frame.ops = <<"rotate90", "fit", "paste", "flip">>

\* C26: whenever a loop thread or a manual show reads
\* current_images[current_index], and whenever a loop thread advances the
\* index modulo the length of the playlist, the playlist is not empty and
\* 0 <= current_index < len(current_images), under every interleaving with
\* switch_orientation, reload_config, next_image and previous_image.
C26_IndexInRange ==
    [][/\ \A t \in Loops :
             /\ (loop[t].pc = "show" /\ loop'[t].pc # "show"
                   /\ show_current_image_now # "skip")
                   => (current_images # <<>> /\ current_index >= 0
                       /\ current_index < Len(current_images))
             /\ (loop[t].pc \in {"show", "xmit"} /\ loop'[t].pc \in {"while", "crashed"})
                   => current_images # <<>>
       /\ \A c \in Callers :
             (ShowNow(c) /\ show_current_image_now # "skip")
                => (current_index >= 0 /\ current_index < Len(current_images))]_vars

\* ------------------------------------------------------------ the panel
\* What has reached the panel is followed in img: the latest three calls of
\* display_image_with_overlay, each with the thread that made it ("loop" or
\* "manual"), the image and the result.
Shown == IF img = NoImage THEN <<>> ELSE img.shown

Seen(by, path, res) ==
    LET all == Append(Shown, [by |-> by, path |-> path, res |-> res])
    IN [pc |-> "none", op |-> "panel",
        shown |-> IF Len(all) > 3 THEN Tail(all) ELSE all]

\* display_image_with_overlay of a loop thread returns
LoopXmitSeen(t) ==
    \E res \in {"ok", "false", "raised"} :
       /\ LoopXmitResult(t, res)
       /\ img' = Seen("loop", loop[t].path, res)

\* display_image_with_overlay of a caller returns
ShowNowXmitSeen(c) ==
    \E res \in {"ok", "false", "raised"} :
       /\ ShowNowXmitResult(c, res)
       /\ img' = Seen("manual", call[c].path, res)

\* the slideshow with its loop and the manual next photo
PanelNext ==
    \/ \E t \in Loops : LoopHead(t) \/ LoopCheckConfig(t) \/ LoopShow(t) \/ LoopXmitSeen(t)
    \/ \E c \in Callers :
          \/ SetDisplay(c)
          \/ StartSlideshow(c)
          \/ StartFinish(c)
          \/ NextImage(c)
          \/ ShowNow(c)
          \/ ShowNowXmitSeen(c)

PanelSpec == Init /\ [][PanelNext]_vars

\* the entry that follows path in the playlist
Successor(path) ==
    LET p == CHOOSE i \in 1..Len(current_images) : current_images[i] = path
    IN current_images[(p % Len(current_images)) + 1]

\* C27: when a loop tick has displayed an image and a manual next photo
\* displays the next one, that image is the successor in the playlist of the
\* one the loop displayed, and the loop tick that follows displays the
\* successor of the manually displayed one.
C27_ManualNextShowsSuccessor ==
    \A k \in 1..Len(Shown) :
       (k > 1 /\ Shown[k - 1].by = "loop" /\ Shown[k - 1].res = "ok"
          /\ Shown[k].by = "manual" /\ Shown[k].res = "ok")
          => /\ Shown[k].path = Successor(Shown[k - 1].path)
             /\ (k < Len(Shown) /\ Shown[k + 1].by = "loop" /\ Shown[k + 1].res = "ok")
                   => Shown[k + 1].path = Successor(Shown[k].path)

\* ------------------------------------------------- configuration editor
\* PhotoFrameApp's editor state is followed in img: _config_open,
\* _config_process (0 is None, otherwise the process), _activation_count, the
\* threads that run _open_config_action and the editor processes they start.
MaxEditors == 3
Editors == 1..MaxEditors

NoEditor ==
    [pc |-> "none", op |-> "editor",
     config_open |-> FALSE, config_process |-> 0, activation_count |-> 0,
     thread |-> [e \in Editors |-> "none"],
     process |-> [e \in Editors |-> "none"]]

Editor == IF img = NoImage THEN NoEditor ELSE img

\* threading.Thread(target=self._open_config_action).start()
start_open_config_action(ed) ==
    IF \E e \in Editors : ed.thread[e] = "none"
    THEN LET e == CHOOSE x \in Editors :
                     ed.thread[x] = "none" /\ \A y \in Editors : ed.thread[y] = "none" => x <= y
         IN [ed EXCEPT !.thread[e] = "started"]
    ELSE ed

\* _open_config_menu_only: the menu item
OpenConfigMenuOnly ==
    /\ Editor.op = "editor"
    /\ \E e \in Editors : Editor.thread[e] = "none"
    /\ LET ed == Editor
           running_now == ed.config_process # 0 /\ ed.process[ed.config_process] = "running"
           cleaned == IF ed.config_process # 0
                      THEN [ed EXCEPT !.config_process = 0, !.config_open = FALSE]
                      ELSE ed
       IN img' = IF running_now THEN ed
                 ELSE IF ~cleaned.config_open THEN start_open_config_action(cleaned)
                 ELSE cleaned
    /\ UNCHANGED <<disk, fs, config, display, lcd, running, current_images,
                   current_index, slideshow_thread, reload_lock, loop, call, obs>>

\* open_config_handler: one activation, within the threshold of the last one
\* or later than that
OpenConfigHandler ==
    /\ Editor.op = "editor"
    /\ \E e \in Editors : Editor.thread[e] = "none"
    /\ \E late \in BOOLEAN :
          LET ed == Editor
              count == IF late THEN 1 ELSE ed.activation_count + 1
          IN img' = IF count >= 2
                    THEN IF ~ed.config_open
                         THEN start_open_config_action([ed EXCEPT !.activation_count = 0])
                         ELSE [ed EXCEPT !.activation_count = 0]
                    ELSE [ed EXCEPT !.activation_count = count]
    /\ UNCHANGED <<disk, fs, config, display, lcd, running, current_images,
                   current_index, slideshow_thread, reload_lock, loop, call, obs>>

\* open_config_handler: the reset timer fires
ActivationReset ==
    /\ img # NoImage /\ img.op = "editor"
    /\ img.activation_count # 0
    /\ img' = [img EXCEPT !.activation_count = 0]
    /\ UNCHANGED <<disk, fs, config, display, lcd, running, current_images,
                   current_index, slideshow_thread, reload_lock, loop, call, obs>>

\* _open_config_action: the editor file is looked up and the process started;
\* without the file the thread ends, and when Popen raises the finally clause
\* clears the fields
OpenConfigPopen(e) ==
    /\ img # NoImage /\ img.op = "editor"
    /\ img.thread[e] = "started"
    /\ \E res \in {"ok", "missing", "raised"} :
          img' = IF res = "ok"
                 THEN [img EXCEPT !.thread[e] = "popen", !.process[e] = "running"]
                 ELSE IF res = "missing"
                 THEN [img EXCEPT !.thread[e] = "ended"]
                 ELSE [img EXCEPT !.thread[e] = "ended",
                                  !.config_process = 0, !.config_open = FALSE]
    /\ UNCHANGED <<disk, fs, config, display, lcd, running, current_images,
                   current_index, slideshow_thread, reload_lock, loop, call, obs>>

\* _open_config_action: self._config_process = proc; self._config_open = True
OpenConfigTrack(e) ==
    /\ img # NoImage /\ img.op = "editor"
    /\ img.thread[e] = "popen"
    /\ img' = [img EXCEPT !.thread[e] = "wait",
                          !.config_process = e, !.config_open = TRUE]
    /\ UNCHANGED <<disk, fs, config, display, lcd, running, current_images,
                   current_index, slideshow_thread, reload_lock, loop, call, obs>>

\* the user closes the editor window
EditorExit(e) ==
    /\ img # NoImage /\ img.op = "editor"
    /\ img.process[e] = "running"
    /\ img' = [img EXCEPT !.process[e] = "exited"]
    /\ UNCHANGED <<disk, fs, config, display, lcd, running, current_images,
                   current_index, slideshow_thread, reload_lock, loop, call, obs>>

\* _open_config_action: proc.wait() returns, reload_config, the finally clause
OpenConfigFinally(e) ==
    /\ img # NoImage /\ img.op = "editor"
    /\ img.thread[e] = "wait"
    /\ img.process[e] = "exited"
    /\ img' = [img EXCEPT !.thread[e] = "ended",
                          !.config_process = 0, !.config_open = FALSE]
    /\ UNCHANGED <<disk, fs, config, display, lcd, running, current_images,
                   current_index, slideshow_thread, reload_lock, loop, call, obs>>

EditorNext ==
    \/ OpenConfigMenuOnly
    \/ OpenConfigHandler
    \/ ActivationReset
    \/ \E e \in Editors :
          \/ OpenConfigPopen(e)
          \/ OpenConfigTrack(e)
          \/ EditorExit(e)
          \/ OpenConfigFinally(e)

EditorSpec == Init /\ [][EditorNext]_vars

\* C28: at most one editor process runs at any time, and once no thread of
\* _open_config_action is under way _config_open is false and
\* _config_process is None.
C28_OneEditor ==
    /\ Cardinality({e \in Editors : Editor.process[e] = "running"}) <= 1
    /\ (\A e \in Editors : Editor.thread[e] \in {"none", "ended"})
          => (~Editor.config_open /\ Editor.config_process = 0)

\* --------------------------------------------------------- folder history
\* The editor's folder history of one orientation is followed in img: the
\* list in memory (portrait_history or landscape_history), the lines of its
\* history file, the value of the dropdown (0 is the empty string), the
\* folder selected last and whether save_history has written the file in
\* this session. The file accepts every write.
\* The two orientations share nothing, each has its own list and file.
HISTORY_LIMIT == 5
MaxFolders == 6
HistoryFolders == 1..MaxFolders

Reversed(seq) == [i \in 1..Len(seq) |-> seq[Len(seq) + 1 - i]]

RECURSIVE unique_of(_, _)
\* for e in entries: if e not in unique: unique.append(e)
unique_of(entries, unique) ==
    IF entries = <<>> THEN unique
    ELSE unique_of(Tail(entries),
                   IF \E i \in 1..Len(unique) : unique[i] = Head(entries)
                   THEN unique ELSE Append(unique, Head(entries)))

\* list(reversed(unique))[:HISTORY_LIMIT]
first_entries(unique) == SubSeq(unique, 1, Min(HISTORY_LIMIT, Len(unique)))

\* save_history: the lines written to the file
save_history(entries) == first_entries(Reversed(unique_of(Reversed(entries), <<>>)))

RECURSIVE list_remove(_, _)
\* list.remove(x): the first occurrence goes
list_remove(seq, x) ==
    IF seq = <<>> THEN <<>>
    ELSE IF Head(seq) = x THEN Tail(seq)
    ELSE <<Head(seq)>> \o list_remove(Tail(seq), x)

list_contains(seq, x) == \E i \in 1..Len(seq) : seq[i] = x

\* the history files an earlier session of the editor can have left
SavedHistories ==
    {<<>>} \cup {<<a>> : a \in HistoryFolders}
           \cup {<<ab[1], ab[2]>> : ab \in {x \in HistoryFolders \X HistoryFolders : x[1] # x[2]}}

\* ConfigEditor.__init__ and load_config: the history is loaded and the
\* dropdown set
ConfigEditorInit(kind) ==
    /\ img = NoImage
    /\ \E entries \in SavedHistories, v \in 0..MaxFolders :
          img' = [pc |-> "none", op |-> "history", kind |-> kind,
                  history |-> entries, file |-> entries,
                  dropdown_var |-> v, selected |-> 0, saved |-> FALSE]
    /\ UNCHANGED <<disk, fs, config, display, lcd, running, current_images,
                   current_index, slideshow_thread, reload_lock, loop, call, obs>>

\* select_portrait / select_landscape
select_folder(kind, folder) ==
    /\ img # NoImage /\ img.op = "history" /\ img.kind = kind
    /\ \E exists \in BOOLEAN :
          LET removed == IF list_contains(img.history, folder)
                         THEN list_remove(img.history, folder) ELSE img.history
              history == Append(removed, folder)
          IN img' = IF exists
                    THEN [img EXCEPT !.dropdown_var = folder,
                                     !.history = history,
                                     !.file = save_history(history),
                                     !.selected = folder,
                                     !.saved = TRUE]
                    ELSE img
    /\ UNCHANGED <<disk, fs, config, display, lcd, running, current_images,
                   current_index, slideshow_thread, reload_lock, loop, call, obs>>

select_portrait(folder) == select_folder("portrait", folder)

select_landscape(folder) == select_folder("landscape", folder)

\* set_portrait_as_default / set_landscape_as_default
set_as_default(kind) ==
    /\ img # NoImage /\ img.op = "history" /\ img.kind = kind
    /\ img.dropdown_var # 0
    /\ LET folder == img.dropdown_var
           removed == IF list_contains(img.history, folder)
                      THEN list_remove(img.history, folder) ELSE img.history
           history == <<folder>> \o removed
       IN img' = [img EXCEPT !.history = history,
                             !.file = save_history(history),
                             !.dropdown_var = history[1],
                             !.saved = TRUE]
    /\ UNCHANGED <<disk, fs, config, display, lcd, running, current_images,
                   current_index, slideshow_thread, reload_lock, loop, call, obs>>

set_portrait_as_default == set_as_default("portrait")

set_landscape_as_default == set_as_default("landscape")

\* the user picks an entry of the read-only dropdown
DropdownPick ==
    /\ img # NoImage /\ img.op = "history"
    /\ \E i \in 1..Len(img.history) :
          /\ img.history[i] # img.dropdown_var
          /\ img' = [img EXCEPT !.dropdown_var = img.history[i]]
    /\ UNCHANGED <<disk, fs, config, display, lcd, running, current_images,
                   current_index, slideshow_thread, reload_lock, loop, call, obs>>

HistoryNext ==
    \/ ConfigEditorInit("portrait")
    \/ ConfigEditorInit("landscape")
    \/ \E folder \in HistoryFolders : select_portrait(folder)
    \/ \E folder \in HistoryFolders : select_landscape(folder)
    \/ set_portrait_as_default
    \/ set_landscape_as_default
    \/ DropdownPick

HistorySpec == Init /\ [][HistoryNext]_vars

\* C29: once select_* or set_*_as_default has written the history file, the
\* file holds at most HISTORY_LIMIT lines, no line twice, and the folder
\* selected last is one of them.
C29_HistoryFile ==
    (img # NoImage /\ img.op = "history" /\ img.saved)
       => /\ Len(img.file) <= HISTORY_LIMIT
          /\ \A i, j \in 1..Len(img.file) : img.file[i] = img.file[j] => i = j
          /\ img.selected # 0 => list_contains(img.file, img.selected)

\* ------------------------------------------------- the cached configuration
\* ConfigManager and the configuration held by its client are followed in
\* img with their dictionaries as objects: a configuration is a dictionary
\* from section names to section dictionaries, held by reference, and heap
\* gives the entry of every section dictionary (photos: orientation, config:
\* PHOTO_FRAME_INVERSE). file is what the configuration file holds
\* (Unreadable when it is missing or damaged), loaded is the content that
\* was last loaded from or saved to the file.
Sections == {"photos", "config"}
SectionValues ==
    [photos |-> {"Portrait", "portrait", "landscape"}, config |-> {"False", "True"}]
Contents ==
    {[photos |-> pi[1], config |-> pi[2]] : pi \in SectionValues.photos \X SectionValues.config}

\* a configuration file that is missing or cannot be parsed
Unreadable == [photos |-> "", config |-> ""]
SectionObjects == 1..(2 * Cardinality(Sections))

\* get_default_config, the sections followed
default_sections == [photos |-> "Portrait", config |-> "False"]

NoManager ==
    [pc |-> "none", op |-> "manager",
     file |-> [photos |-> "portrait", config |-> "False"],
     cached |-> FALSE, cache |-> [s \in Sections |-> 0],
     held |-> FALSE, client |-> [s \in Sections |-> 0],
     heap |-> [o \in SectionObjects |-> ""],
     loaded |-> default_sections]

Manager == IF img = NoImage THEN NoManager ELSE img

\* the section dictionaries a dictionary refers to
Referenced(d) == {d[s] : s \in Sections} \ {0}

\* the content of a configuration: the entries of its sections
ContentOf(m, d) == [s \in Sections |-> m.heap[d[s]]]

\* the section dictionaries nothing refers to are gone
Collected(m) ==
    LET live == (IF m.cached THEN Referenced(m.cache) ELSE {})
                   \cup (IF m.held THEN Referenced(m.client) ELSE {})
    IN [m EXCEPT !.heap = [o \in SectionObjects |-> IF o \in live THEN m.heap[o] ELSE ""]]

\* the first section dictionary not in use
NewObject(inuse) == CHOOSE o \in SectionObjects \ inuse :
                       \A x \in SectionObjects \ inuse : o <= x

\* yaml.safe_load or get_default_config builds new dictionaries
Parsed(m, content) ==
    LET inuse == IF m.held THEN Referenced(m.client) ELSE {}
        p == NewObject(inuse)
        c == NewObject(inuse \cup {p})
    IN [m EXCEPT !.cached = TRUE,
                 !.cache = [photos |-> p, config |-> c],
                 !.heap = [@ EXCEPT ![p] = content.photos, ![c] = content.config],
                 !.loaded = content]

\* ConfigManager.load_config: the cache is filled when empty or forced, and
\* self._config.copy() is returned: a new dictionary with the same section
\* dictionaries
ManagerLoadConfig(force_reload) ==
    /\ Manager.op = "manager"
    /\ LET m == Manager
           filled == IF ~m.cached \/ force_reload
                     THEN Parsed(m, IF m.file = Unreadable THEN default_sections ELSE m.file)
                     ELSE m
       IN img' = Collected([filled EXCEPT !.held = TRUE, !.client = filled.cache])
    /\ UNCHANGED <<disk, fs, config, display, lcd, running, current_images,
                   current_index, slideshow_thread, reload_lock, loop, call, obs>>

\* switch_orientation: self.config['photos']['orientation'] = new_orientation
SetOrientationInPlace ==
    /\ img # NoImage /\ img.op = "manager" /\ img.held
    /\ LET current == img.heap[img.client.photos]
           new_orientation == IF current = "landscape" THEN "portrait" ELSE "landscape"
       IN img' = [img EXCEPT !.heap[img.client.photos] = new_orientation]
    /\ UNCHANGED <<disk, fs, config, display, lcd, running, current_images,
                   current_index, slideshow_thread, reload_lock, loop, call, obs>>

\* the client gives its configuration another section dictionary:
\* config[section] = {...}
ReplaceSection(section) ==
    /\ img # NoImage /\ img.op = "manager" /\ img.held
    /\ \E v \in SectionValues[section] :
          LET inuse == (IF img.cached THEN Referenced(img.cache) ELSE {})
                          \cup (Referenced(img.client) \ {img.client[section]})
              o == NewObject(inuse)
          IN /\ v # img.heap[img.client[section]]
             /\ img' = Collected([img EXCEPT !.client[section] = o, !.heap[o] = v])
    /\ UNCHANGED <<disk, fs, config, display, lcd, running, current_images,
                   current_index, slideshow_thread, reload_lock, loop, call, obs>>

\* ConfigManager.save_config(config): the file is written and the cache
\* becomes config.copy(); when writing fails the backup is restored, or the
\* file is left missing or damaged
ManagerSaveConfig ==
    /\ img # NoImage /\ img.op = "manager" /\ img.held
    /\ \E outcome \in {"saved", "restored", "lost"} :
          img' = IF outcome = "saved"
                 THEN Collected([img EXCEPT !.file = ContentOf(img, img.client),
                                            !.cached = TRUE,
                                            !.cache = img.client,
                                            !.loaded = ContentOf(img, img.client)])
                 ELSE IF outcome = "restored" THEN img
                 ELSE [img EXCEPT !.file = Unreadable]
    /\ UNCHANGED <<disk, fs, config, display, lcd, running, current_images,
                   current_index, slideshow_thread, reload_lock, loop, call, obs>>

\* the configuration editor writes the file
ConfigFileWritten ==
    /\ Manager.op = "manager"
    /\ \E content \in Contents :
          /\ content # Manager.file
          /\ img' = [Manager EXCEPT !.file = content]
    /\ UNCHANGED <<disk, fs, config, display, lcd, running, current_images,
                   current_index, slideshow_thread, reload_lock, loop, call, obs>>

ManagerNext ==
    \/ \E force_reload \in BOOLEAN : ManagerLoadConfig(force_reload)
    \/ SetOrientationInPlace
    \/ \E section \in Sections : ReplaceSection(section)
    \/ ManagerSaveConfig
    \/ ConfigFileWritten

ManagerSpec == Init /\ [][ManagerNext]_vars

\* C30: whatever the client does with the configuration load_config gave it,
\* the manager's cached configuration, which a load_config without
\* force_reload returns, has the content last loaded from or saved to the
\* file.
C30_CacheIsolated ==
    Manager.cached => ContentOf(Manager, Manager.cache) = Manager.loaded

\* ----------------------------------------------------------- start-up
\* the first line of tools/portrait_folders_history.txt and of
\* tools/landscape_folders_history.txt ("": the file is missing or empty)
PortraitHistory == {"A"}
LandscapeHistory == {"", "B"}

\* the configuration _initialize_default_folders writes for the
\* configuration d it has read
initialize_default_folders(d, ph, lh) ==
    [d EXCEPT !.portrait_folder = IF ph # "" THEN ph ELSE @,
              !.landscape_folder = IF lh # "" THEN lh ELSE @]

\* the program before PhotoFrameApp.initialize: tools/config.yaml names no
\* folder yet, and the callers are held ("boot") until PhotoFrame exists
BootInit ==
    /\ disk = [orientation |-> "portrait", portrait_folder |-> "",
               landscape_folder |-> "", inverse |-> FALSE]
    /\ fs = [f \in Folders |-> InitialEntries(f)]
    /\ config = disk
    /\ display = FALSE
    /\ lcd = apply_config(disk)
    /\ running = FALSE
    /\ current_images = <<>>
    /\ current_index = 0
    /\ slideshow_thread = 0
    /\ reload_lock = FALSE
    /\ loop = [t \in Loops |-> [pc |-> "none", path |-> NoFile, failed |-> "none"]]
    /\ call = [c \in Callers |->
                 [op |-> "none", pc |-> "boot", path |-> NoFile, ret |-> "none"]]
    /\ obs = [ticks |-> 0 - 1, reloaded |-> FALSE, first |-> "none"]
    /\ img = NoImage

\* PhotoFrameApp.initialize: _initialize_default_folders rewrites
\* tools/config.yaml (written is FALSE when it raises before the write),
\* then LCDDisplay() and PhotoFrame() read the file
InitializeDefaultFolders(c) ==
    /\ call[c].pc = "boot"
    /\ \E ph \in PortraitHistory, lh \in LandscapeHistory, written \in BOOLEAN :
          disk' = IF written THEN initialize_default_folders(disk, ph, lh) ELSE disk
    /\ \E readable \in Readable :
          /\ config' = load_config(disk', readable)
          /\ lcd' = apply_config(config')
    /\ call' = Returned(c, "initialize", "none")
    /\ UNCHANGED <<fs, display, running, current_images, current_index,
                   slideshow_thread, reload_lock, loop, obs>>
    /\ UNCHANGED img

\* the program from its start-up on
BootNext == Next \/ \E c \in Callers : InitializeDefaultFolders(c)

BootSpec == BootInit /\ [][BootNext]_vars

\* C12, as claimed: the configuration file changes only when the settings
\* editor saves it.
C12_OnlyEditorWrites == [][disk' # disk => EditorSave]_vars

\* C12, amended: the configuration file changes only when the settings
\* editor saves it, when switch_orientation saves the orientation it has
\* toggled, or when the start-up writes the default folders.
C12_WritersOfConfig ==
    [][disk' # disk =>
          \/ EditorSave
          \/ \E c \in Callers : SwitchOrientation(c)
          \/ \E c \in Callers : InitializeDefaultFolders(c)]_vars

\* the file holds what only the start-up (portrait folder from the history,
\* no landscape folder) followed by switch_orientation can have written
C12_WrittenByCore ==
    /\ disk.portrait_folder = "A"
    /\ disk.landscape_folder = ""
    /\ disk.orientation = "landscape"

====
